---- MODULE Spec2Model ----
(***************************************************************************)
(* Tenant isolation, role gate and invitation lifecycle of the            *)
(* CommunityHub server.  The persistence store is the only shared state;  *)
(* every await of a handler is one atomic store operation.                *)
(***************************************************************************)
EXTENDS Integers, FiniteSets, Sequences, TLC

(***************************************************************************)
(* Bounds of the model                                                     *)
(***************************************************************************)
\* the clock runs over 0..MaxTime days
MaxTime == 2
\* time and requested TTLs are counted in parts of a day: TtlUnit parts a day
TtlUnit == 2
\* requested TTLs range over -MaxTtlInput..MaxTtlInput days
MaxTtlInput == 32
\* number of invitation tokens crypto.randomUUID() hands out
MaxTokens == 2

(***************************************************************************)
(* Universe                                                                *)
(***************************************************************************)
Tenants == {"tA", "tB"}
SlugOf == [t \in Tenants |-> IF t = "tA" THEN "a" ELSE "b"]
Slugs == {SlugOf[t] : t \in Tenants}

NormalUsers == {"u1", "u2"}
SuperAdmins == {"sa"}
Users == NormalUsers \cup SuperAdmins
Procs == {"p1", "p2"}

\* src/src/models/User.ts:3
GlobalRoles == {"SUPER_ADMIN", "USER"}
TenantRoles == {"OWNER", "ADMIN", "MODERATOR", "MEMBER"}
MembershipStatuses == {"PENDING", "ACTIVE", "SUSPENDED", "BANNED"}

\* a request field that is absent (undefined in the request object)
Undefined == "undefined"

\* the user documents: email is stored lower-cased and trimmed by the schema
UserDoc == [u \in Users |->
              [email |-> CASE u = "u1" -> "a@x" [] u = "u2" -> "b@x" [] OTHER -> "s@x",
               globalRole |-> IF u \in SuperAdmins THEN "SUPER_ADMIN" ELSE "USER"]]

\* req.user as produced by verifyJwt: the claims of the bearer token, signed
\* when the token was issued with the globalRole the user had then
ReqUser(u) ==
  [sub |-> u, globalRole |-> IF u \in Users THEN UserDoc[u].globalRole ELSE "USER"]

\* e-mail addresses as a client may type them, and String.toLowerCase().trim()
RawEmails == {"a@x", " A@X", "b@x"}
toLowerCaseTrim(e) == IF e = " A@X" THEN "a@x" ELSE e
\* String.toLowerCase() alone
toLowerCase(e) == IF e = " A@X" THEN " a@x" ELSE e

\* identifiers as they may appear in a request, String(x).trim() and
\* Types.ObjectId.isValid
RawIds == Tenants \cup {" tA", "bad", ""}
trim(s) == IF s = " tA" THEN "tA" ELSE s
isValidObjectId(s) == s \in Tenants

VARIABLES
  now,          \* Date.now(), in parts of a day
  memberships,  \* MembershipModel: set of documents
  settings,     \* TenantSettingsModel: set of documents
  invitations,  \* InvitationModel: set of documents
  nextToken,    \* next value of crypto.randomUUID()
  profiles,     \* MemberProfileModel: set of documents
  pr,           \* the in-flight requests: position and locals of each
  resp,         \* the response of the request that finished last
  gate,         \* the last decision of requireTenantRole / ensureMembership
  seqTok,       \* slug, token and user of the acceptance that finished last, if no
                \* other request arrived since
  groups,       \* GroupModel: set of documents
  groupMembers, \* GroupMembershipModel: set of documents
  rsvps,        \* EventRsvpModel: set of documents
  enrollments,  \* ProgramEnrollmentModel: set of documents
  files,        \* the tenant-files.files collection of the GridFS bucket
  userStatus,   \* UserModel: the status of each user document
  userRoles,    \* UserModel: the globalRole of each user document
  tenants,      \* TenantModel: set of documents
  announcements, \* AnnouncementModel: set of documents
  posts,        \* TenantPostModel: set of documents
  resources,    \* TenantResourceModel: set of documents
  events,       \* EventModel: set of documents
  programs,     \* ProgramModel: set of documents
  modules,      \* ProgramModuleModel: set of documents
  assignments   \* ProgramAssignmentModel: set of documents

dbVars == <<memberships, settings, invitations, nextToken, profiles>>
featVars == <<groups, groupMembers, rsvps, enrollments>>
contentVars == <<announcements, posts, resources, events, programs, modules, assignments>>
moreVars == <<userStatus, userRoles, tenants, contentVars>>
vars == <<now, memberships, settings, invitations, nextToken, profiles,
          pr, resp, gate, seqTok, groups, groupMembers, rsvps, enrollments, files,
          userStatus, userRoles, tenants, announcements, posts, resources, events, programs,
          modules, assignments>>

(***************************************************************************)
(* Store queries                                                           *)
(***************************************************************************)
\* MembershipModel.find({ tenantId, userId })
MembershipsOf(t, u) == {m \in memberships : m.tenantId = t /\ m.userId = u}
\* MembershipModel.find({ tenantId, userId, status: 'ACTIVE' })
ActiveMembershipsOf(t, u) == {m \in MembershipsOf(t, u) : m.status = "ACTIVE"}
SettingsOf(t) == {s \in settings : s.tenantId = t}
\* TenantModel.findOne({ slug }) and TenantModel.findById(id), as tenant ids
TenantBySlug(slug) == {t.id : t \in {x \in tenants : x.slug = slug}}
TenantById(id) == {t.id : t \in {x \in tenants : x.id = id}}

(***************************************************************************)
(* Role gate and membership assertion                                      *)
(***************************************************************************)
\* a ?? b ?? c ?? d ?? ''
Coalesce(a, b, c, d) ==
  IF a # Undefined THEN a
  ELSE IF b # Undefined THEN b
  ELSE IF c # Undefined THEN c
  ELSE IF d # Undefined THEN d
  ELSE ""

\* the shape of a request as the gate sees it
GateRequests ==
  [hasUser : BOOLEAN, user : Users,
   paramsTenantId : RawIds \cup {Undefined}, paramsId : {Undefined, "tB"},
   bodyTenantId : Tenants \cup {Undefined}, queryTenantId : Tenants \cup {Undefined}]

\* the mutant resolves a body-supplied identifier before the path
ResolveTenantId_bodyFirst(req) ==
  trim(Coalesce(req.bodyTenantId, req.paramsTenantId, req.paramsId, req.queryTenantId))

\* the tenant identifier the gate resolves for a request
ResolveTenantId(req) ==
  trim(Coalesce(req.paramsTenantId, req.paramsId, req.bodyTenantId, req.queryTenantId))

\* the mutant forgets the status filter
GateLookup_anyStatus(t, u) == MembershipsOf(t, u)

\* the mutant forgets the tenant filter
GateLookup_anyTenant(t, u) == {m \in memberships : m.userId = u /\ m.status = "ACTIVE"}

\* MembershipModel.findOne({ tenantId, userId: req.user.sub, status: 'ACTIVE' })
GateLookup(t, u) == ActiveMembershipsOf(t, u)


\* the outcomes requireTenantRole(roles) can produce for a request
requireTenantRole(roles, req) ==
  IF ~req.hasUser THEN {"UNAUTHORIZED"}
  ELSE IF ReqUser(req.user).globalRole = "SUPER_ADMIN" THEN {"NEXT"}
  ELSE LET tenantIdStr == ResolveTenantId(req) IN
    IF tenantIdStr = "" \/ ~isValidObjectId(tenantIdStr) THEN {"VALIDATION_ERROR"}
    ELSE LET found == GateLookup(tenantIdStr, req.user) IN
      IF found = {} THEN {"FORBIDDEN"}
      ELSE {IF m.role \in roles THEN "NEXT" ELSE "FORBIDDEN" : m \in found}

\* the Authorization header of a request: none, a token verifyJwt rejects, or
\* a token verifyJwt accepts with claims for user sub
NoToken == [kind |-> "none", sub |-> ""]
BadToken == [kind |-> "invalid", sub |-> ""]
TokenOf(u) == [kind |-> "valid", sub |-> u]
\* the subject of a token whose user document no longer exists
GoneUser == "ux"

\* UserModel.findById(req.user.sub).select({ status: 1 })
UserById(sub) == IF sub \in DOMAIN userStatus THEN {userStatus[sub]} ELSE {}

\* the mutant trusts the token and does not look the account up
auth_tokenOnly(token) ==
  IF token.kind = "none" THEN "UNAUTHORIZED"
  ELSE IF token.kind = "invalid" THEN "INVALID_TOKEN"
  ELSE "NEXT"

\* the auth middleware: what it answers, or NEXT
auth(token) ==
  IF token.kind = "none" THEN "UNAUTHORIZED"
  ELSE IF token.kind = "invalid" THEN "INVALID_TOKEN"
  ELSE IF UserById(token.sub) = {} THEN "UNAUTHORIZED"
  ELSE IF UserById(token.sub) = {"SUSPENDED"} THEN "ACCOUNT_SUSPENDED"
  ELSE IF UserById(token.sub) = {"BANNED"} THEN "ACCOUNT_BANNED"
  ELSE "NEXT"

\* tenantObjectId: throws unless the string is a valid ObjectId
tenantObjectIdOk(s) == isValidObjectId(s)

\* the outcomes ensureMembership(tenantId, userId) can produce
ensureMembership(tenantId, userId) ==
  IF ~tenantObjectIdOk(tenantId) THEN {"VALIDATION_ERROR"}
  ELSE IF ActiveMembershipsOf(tenantId, userId) = {} THEN {"FORBIDDEN"} ELSE {"NEXT"}

\* ensureMembership of the upload controller: new Types.ObjectId(tenantId)
ensureMembershipUpload(tenantId, userId) ==
  IF ~isValidObjectId(tenantId) THEN {"ERROR"}
  ELSE IF ActiveMembershipsOf(tenantId, userId) = {} THEN {"FORBIDDEN"} ELSE {"NEXT"}

NoGate == [kind |-> "none"]
NoAccept == [slug |-> "", token |-> 0, user |-> ""]
NoResp == [op |-> "none"]

(***************************************************************************)
(* Invitation status                                                       *)
(***************************************************************************)
\* the mutant treats an invitation as expired at the instant of its expiry
normalizeInvitationStatus_inclusive(status, expiresAt) ==
  IF status = "REVOKED" THEN "REVOKED"
  ELSE IF status = "ACCEPTED" THEN "ACCEPTED"
  ELSE IF expiresAt <= now THEN "EXPIRED"
  ELSE "SENT"

\* normalizeInvitationStatus of the tenant-features controller
normalizeInvitationStatus(status, expiresAt) ==
  IF status = "REVOKED" THEN "REVOKED"
  ELSE IF status = "ACCEPTED" THEN "ACCEPTED"
  ELSE IF expiresAt < now THEN "EXPIRED"
  ELSE "SENT"

\* the mutant lets expiry win over a stored ACCEPTED
normalizeInvitationStatusTenants_notSticky(status, expiresAt) ==
  IF status = "REVOKED" THEN "REVOKED"
  ELSE IF expiresAt < now THEN "EXPIRED"
  ELSE "SENT"

\* the mutant treats an invitation as expired at the instant of its expiry
normalizeInvitationStatusTenants_inclusive(status, expiresAt) ==
  IF status = "REVOKED" THEN "REVOKED"
  ELSE IF status = "ACCEPTED" THEN "ACCEPTED"
  ELSE IF expiresAt <= now THEN "EXPIRED"
  ELSE "SENT"

\* normalizeInvitationStatus of the tenants controller
normalizeInvitationStatusTenants(status, expiresAt) ==
  IF status = "REVOKED" THEN "REVOKED"
  ELSE IF status = "ACCEPTED" THEN "ACCEPTED"
  ELSE IF expiresAt < now THEN "EXPIRED"
  ELSE "SENT"

Max(a, b) == IF a > b THEN a ELSE b
Min(a, b) == IF a < b THEN a ELSE b

\* expiry set by resendInvitation: Date.now() + 7 days
ResendTtlDays == 7
\* Number(req.body.expiresInDays || 7)
DefaultTtlDays == 7
MinTtlDays == 1
MaxTtlDays == 30

\* req.body.expiresInDays as JSON delivers it: absent (or null, or ''), a
\* number, a numeric string, or a text that is no number; numbers in parts
JsMissing == [kind |-> "missing", parts |-> 0]
JsNumber(parts) == [kind |-> "number", parts |-> parts]
JsString(parts) == [kind |-> "string", parts |-> parts]
JsText == [kind |-> "text", parts |-> 0]
\* a whole number of days
Days(d) == JsNumber(d * TtlUnit)

\* a JavaScript number: NaN, or a count of parts of a day
NaN == [nan |-> TRUE, parts |-> 0]
Num(parts) == [nan |-> FALSE, parts |-> parts]

\* the truthiness of a value in v || 7
Truthy(v) ==
  CASE v.kind = "missing" -> FALSE
    [] v.kind = "number" -> v.parts # 0
    [] OTHER -> TRUE

\* Number(req.body.expiresInDays || 7)
NumberOf(v) ==
  IF ~Truthy(v) THEN Num(DefaultTtlDays * TtlUnit)
  ELSE IF v.kind = "text" THEN NaN
  ELSE Num(v.parts)

\* Math.min(days, x) and Math.max(days, x): NaN if x is NaN
MathMin(days, x) == IF x.nan THEN NaN ELSE Num(Min(days * TtlUnit, x.parts))
MathMax(days, x) == IF x.nan THEN NaN ELSE Num(Max(days * TtlUnit, x.parts))

\* the mutant forgets the lower bound
ClampTtl_noFloor(expiresInDays) == MathMin(MaxTtlDays, NumberOf(expiresInDays))

\* Math.max(1, Math.min(30, ttlDays)) of createInvitation
ClampTtl(expiresInDays) ==
  MathMax(MinTtlDays, MathMin(MaxTtlDays, NumberOf(expiresInDays)))

\* new Date(Date.now() + ttl * 24 * 60 * 60 * 1000): an Invalid Date if ttl is NaN
DateAfter(ttl) == IF ttl.nan THEN NaN ELSE Num(now + ttl.parts)

\* the expiry of an invitation is a timestamp: the store takes no Invalid Date
IsTimestamp(date) == ~date.nan

\* a request to /api/tenants/:tenantId/... with a body and a query
FeatRequest(c, t, body, query) ==
  [hasUser |-> TRUE, user |-> c, paramsTenantId |-> t, paramsId |-> Undefined,
   bodyTenantId |-> body, queryTenantId |-> query]

\* the gate of a route mounted under /api/tenants/:tenantId/..., as passed
\* by caller c for path tenant t
PathRequest(c, t) ==
  [hasUser |-> TRUE, user |-> c, paramsTenantId |-> t, paramsId |-> Undefined,
   bodyTenantId |-> Undefined, queryTenantId |-> Undefined]
RoutePasses(roles, c, t) == "NEXT" \in requireTenantRole(roles, PathRequest(c, t))

OwnerAdmin == {"OWNER", "ADMIN"}
OwnerAdminModerator == {"OWNER", "ADMIN", "MODERATOR"}

Membership(t, u, role, status) ==
  [tenantId |-> t, userId |-> u, role |-> role, status |-> status]

\* the mutant is a store without the constraint
UniquePair_none(doc) == TRUE

\* the store keeps one membership per (tenantId, userId): an insert of a second
\* one fails on the uniqueness constraint
UniquePair(doc) == MembershipsOf(doc.tenantId, doc.userId) = {}

\* the mutant inserts without looking for an existing document
UpsertMembership_insert(doc) == memberships' = memberships \cup {doc}

\* MembershipModel.findOneAndUpdate({ tenantId, userId }, doc, { upsert: true })
UpsertMembership(doc) ==
  LET found == MembershipsOf(doc.tenantId, doc.userId) IN
  IF found = {} THEN memberships' = memberships \cup {doc}
  ELSE \E d \in found : memberships' = (memberships \ {d}) \cup {doc}

Idle == [pc |-> "idle"]
AllIdle == \A p \in Procs : pr[p].pc = "idle"
OthersIdle(p) == \A q \in Procs \ {p} : pr[q].pc = "idle"

(***************************************************************************)
(* Tenant-features handlers that are one store operation each              *)
(***************************************************************************)
\* PUT /settings
updateTenantSettings(c, t, publicSignup, approvalRequired) ==
  /\ IF ~RoutePasses(OwnerAdmin, c, t)
     THEN /\ resp' = [op |-> "updateTenantSettings", code |-> "FORBIDDEN"]
          /\ UNCHANGED settings
     ELSE /\ settings' = (settings \ SettingsOf(t)) \cup
               {[tenantId |-> t, publicSignup |-> publicSignup,
                 approvalRequired |-> approvalRequired]}
          /\ resp' = [op |-> "updateTenantSettings", code |-> "OK"]
  /\ gate' = NoGate /\ seqTok' = NoAccept
  /\ UNCHANGED <<now, memberships, invitations, nextToken, profiles, pr>>
  /\ UNCHANGED <<featVars, files, moreVars>>

\* PUT /members/:userId
updateMemberRole(c, t, userId, role, status) ==
  /\ IF ~RoutePasses(OwnerAdmin, c, t)
     THEN /\ resp' = [op |-> "updateMemberRole", code |-> "FORBIDDEN"]
          /\ UNCHANGED memberships
     ELSE IF MembershipsOf(t, userId) = {}
     THEN /\ resp' = [op |-> "updateMemberRole", code |-> "NOT_FOUND"]
          /\ UNCHANGED memberships
     ELSE /\ \E d \in MembershipsOf(t, userId) :
               memberships' = (memberships \ {d}) \cup {Membership(t, userId, role, status)}
          /\ resp' = [op |-> "updateMemberRole", code |-> "OK"]
  /\ gate' = NoGate /\ seqTok' = NoAccept
  /\ UNCHANGED <<now, settings, invitations, nextToken, profiles, pr>>
  /\ UNCHANGED <<featVars, files, moreVars>>

\* POST /api/admin/users/:userId/promote-tenant, existing-tenant form
promoteUserToTenant(c, userId, existingTenantId, membershipRole) ==
  /\ IF ReqUser(c).globalRole # "SUPER_ADMIN"
     THEN /\ resp' = [op |-> "promoteUserToTenant", code |-> "FORBIDDEN"]
          /\ UNCHANGED memberships
     ELSE IF ~isValidObjectId(existingTenantId)
     THEN /\ resp' = [op |-> "promoteUserToTenant", code |-> "VALIDATION_ERROR"]
          /\ UNCHANGED memberships
     ELSE IF TenantById(existingTenantId) = {}
     THEN /\ resp' = [op |-> "promoteUserToTenant", code |-> "NOT_FOUND"]
          /\ UNCHANGED memberships
     ELSE /\ UpsertMembership(Membership(existingTenantId, userId,
                 IF membershipRole = "ADMIN" THEN "ADMIN" ELSE "OWNER", "ACTIVE"))
          /\ resp' = [op |-> "promoteUserToTenant", code |-> "OK"]
  /\ gate' = NoGate /\ seqTok' = NoAccept
  /\ UNCHANGED <<now, settings, invitations, nextToken, profiles, pr>>
  /\ UNCHANGED <<featVars, files, moreVars>>

(***************************************************************************)
(* The audit log, utils/audit                                              *)
(***************************************************************************)
\* the mutant is a recorder whose failure rejects the promise the handler awaits
writeAuditLog_rejects(fails) == IF fails THEN "REJECTED" ELSE "RESOLVED"

\* record(actor, tenant, actionKind, metadata) is fire-and-forget: a failure to
\* record is kept inside, the promise the handler awaits resolves either way
writeAuditLog(fails) == "RESOLVED"

\* await writeAuditLog(...) followed by the response with code done
AfterAudit(fails, done) ==
  IF writeAuditLog(fails) = "REJECTED" THEN "INTERNAL_SERVER_ERROR" ELSE done

\* PATCH /api/admin/users/:userId: the body's globalRole and status, each
\* absent, valid or not valid. The caller is authorised on the claim of the
\* token; UserModel.findByIdAndUpdate(userId, updates) writes the document.
UserStatuses == {"ACTIVE", "SUSPENDED", "BANNED"}
updateUserRoleStatus(c, userId, globalRole, status) ==
  /\ IF ReqUser(c).globalRole # "SUPER_ADMIN"
     THEN /\ resp' = [op |-> "updateUserRoleStatus", code |-> "FORBIDDEN"]
          /\ UNCHANGED <<userStatus, userRoles>>
     ELSE IF globalRole # Undefined /\ globalRole \notin GlobalRoles
     THEN /\ resp' = [op |-> "updateUserRoleStatus", code |-> "VALIDATION_ERROR"]
          /\ UNCHANGED <<userStatus, userRoles>>
     ELSE IF status # Undefined /\ status \notin UserStatuses
     THEN /\ resp' = [op |-> "updateUserRoleStatus", code |-> "VALIDATION_ERROR"]
          /\ UNCHANGED <<userStatus, userRoles>>
     ELSE IF globalRole = Undefined /\ status = Undefined
     THEN /\ resp' = [op |-> "updateUserRoleStatus", code |-> "VALIDATION_ERROR"]
          /\ UNCHANGED <<userStatus, userRoles>>
     ELSE IF userId \notin DOMAIN userStatus
     THEN /\ resp' = [op |-> "updateUserRoleStatus", code |-> "NOT_FOUND"]
          /\ UNCHANGED <<userStatus, userRoles>>
     ELSE /\ userStatus' = IF status = Undefined THEN userStatus
                           ELSE [userStatus EXCEPT ![userId] = status]
          /\ userRoles' = IF globalRole = Undefined THEN userRoles
                          ELSE [userRoles EXCEPT ![userId] = globalRole]
          /\ resp' = [op |-> "updateUserRoleStatus", code |-> "OK"]
  /\ gate' = NoGate /\ seqTok' = NoAccept
  /\ UNCHANGED <<now, memberships, settings, invitations, nextToken, profiles, pr>>
  /\ UNCHANGED <<featVars, files, tenants, contentVars>>

(***************************************************************************)
(* Invitation handlers of the tenant-features controller                   *)
(***************************************************************************)
NoTime == -1

\* InvitationModel.create({ tenantId, email, role, status: 'SENT', token, expiresAt })
NewInvitation(t, email, role, token, expiresAt) ==
  [id |-> Cardinality(invitations) + 1, tenantId |-> t, email |-> email, role |-> role,
   status |-> "SENT", token |-> token, expiresAt |-> expiresAt,
   acceptedByUserId |-> Undefined, acceptedAt |-> NoTime,
   revokedByUserId |-> Undefined, revokedAt |-> NoTime]

\* the mutant does not count an invitation that expires at this very instant
OutstandingInvitations_strict(t, email) ==
  {i \in invitations : /\ i.tenantId = t /\ i.email = email
                       /\ i.status \in {"SENT", "PENDING"} /\ i.expiresAt > now}

\* InvitationModel.findOne({ tenantId, email, status: { $in: ['SENT', 'PENDING'] },
\*                           expiresAt: { $gte: new Date() } })
OutstandingInvitations(t, email) ==
  {i \in invitations : /\ i.tenantId = t /\ i.email = email
                       /\ i.status \in {"SENT", "PENDING"} /\ i.expiresAt >= now}

\* InvitationModel.findOne({ _id, tenantId })
InvitationById(id, t) == {i \in invitations : i.id = id /\ i.tenantId = t}

\* InvitationModel.findOne({ tenantId, token })
InvitationByToken(t, token) == {i \in invitations : i.tenantId = t /\ i.token = token}

\* the response of an invitation handler, with the e-mail or id of the request,
\* the stored documents its query looked at and the documents it saved
InvResp(op, c, t, arg, code, before, saved, reported) ==
  [op |-> op, caller |-> c, tenant |-> t, arg |-> arg, code |-> code,
   before |-> before, saved |-> saved, reported |-> reported]

\* the mutant keeps the revocation fields of the stored document
ResendSaved_keepsRevocation(existing) ==
  [existing EXCEPT !.token = nextToken, !.status = "SENT",
                   !.expiresAt = now + ResendTtlDays * TtlUnit]

\* the mutant extends the invitation under the token it has
ResendSaved_keepsToken(existing) ==
  [existing EXCEPT !.status = "SENT", !.revokedAt = NoTime,
                   !.revokedByUserId = Undefined, !.expiresAt = now + ResendTtlDays * TtlUnit]

\* the document resendInvitation saves
ResendSaved(existing) ==
  [existing EXCEPT !.token = nextToken, !.status = "SENT", !.revokedAt = NoTime,
                   !.revokedByUserId = Undefined, !.expiresAt = now + ResendTtlDays * TtlUnit]

\* the mutant records the revocation but leaves the stored status as it was
RevokeSaved_keepsStatus(existing, c) ==
  [existing EXCEPT !.revokedByUserId = c, !.revokedAt = now]

\* the document revokeInvitation saves
RevokeSaved(existing, c) ==
  [existing EXCEPT !.status = "REVOKED", !.revokedByUserId = c, !.revokedAt = now]

\* POST /invitations
createInvitation(c, t, rawEmail, role, expiresInDays) ==
  /\ nextToken <= MaxTokens
  /\ LET email == toLowerCaseTrim(rawEmail)
         expiresAt == DateAfter(ClampTtl(expiresInDays))
         row == NewInvitation(t, email, role, nextToken, expiresAt.parts)
         before == {i \in invitations : i.tenantId = t /\ i.email = email}
     IN IF ~RoutePasses(OwnerAdmin, c, t)
        THEN /\ resp' = InvResp("createInvitation", c, t, [email |-> rawEmail, ttl |-> expiresInDays], "FORBIDDEN", before, {}, {})
             /\ UNCHANGED <<invitations, nextToken>>
        ELSE IF OutstandingInvitations(t, email) # {}
        THEN /\ resp' = InvResp("createInvitation", c, t, [email |-> rawEmail, ttl |-> expiresInDays], "INVITATION_EXISTS", before, {}, {})
             /\ UNCHANGED <<invitations, nextToken>>
        ELSE IF ~IsTimestamp(expiresAt)
        THEN /\ resp' = InvResp("createInvitation", c, t, [email |-> rawEmail, ttl |-> expiresInDays], "INTERNAL_SERVER_ERROR", before, {}, {})
             /\ UNCHANGED <<invitations, nextToken>>
        ELSE /\ invitations' = invitations \cup {row}
             /\ nextToken' = nextToken + 1
             /\ resp' = InvResp("createInvitation", c, t, [email |-> rawEmail, ttl |-> expiresInDays], "OK", before, {row},
                           {[id |-> row.id,
                             status |-> normalizeInvitationStatus(row.status, row.expiresAt)]})
  /\ gate' = NoGate /\ seqTok' = NoAccept
  /\ UNCHANGED <<now, memberships, settings, profiles, pr>>
  /\ UNCHANGED <<featVars, files, moreVars>>

\* PUT /invitations/:id/resend
resendInvitation(c, t, id) ==
  /\ nextToken <= MaxTokens
  /\ IF ~RoutePasses(OwnerAdmin, c, t)
     THEN /\ resp' = InvResp("resendInvitation", c, t, id, "FORBIDDEN", InvitationById(id, t), {}, {})
          /\ UNCHANGED <<invitations, nextToken>>
     ELSE IF InvitationById(id, t) = {}
     THEN /\ resp' = InvResp("resendInvitation", c, t, id, "NOT_FOUND", {}, {}, {})
          /\ UNCHANGED <<invitations, nextToken>>
     ELSE \E existing \in InvitationById(id, t) :
       IF existing.status = "ACCEPTED"
       THEN /\ resp' = InvResp("resendInvitation", c, t, id, "INVALID_STATE", {existing}, {}, {})
            /\ UNCHANGED <<invitations, nextToken>>
       ELSE LET saved == ResendSaved(existing)
            IN /\ invitations' = (invitations \ {existing}) \cup {saved}
               /\ nextToken' = nextToken + 1
               /\ resp' = InvResp("resendInvitation", c, t, id, "OK", {existing}, {saved},
                             {[id |-> saved.id,
                               status |-> normalizeInvitationStatus(saved.status, saved.expiresAt)]})
  /\ gate' = NoGate /\ seqTok' = NoAccept
  /\ UNCHANGED <<now, memberships, settings, profiles, pr>>
  /\ UNCHANGED <<featVars, files, moreVars>>

\* PUT /invitations/:id/revoke
revokeInvitation(c, t, id) ==
  /\ IF ~RoutePasses(OwnerAdmin, c, t)
     THEN /\ resp' = InvResp("revokeInvitation", c, t, id, "FORBIDDEN", InvitationById(id, t), {}, {})
          /\ UNCHANGED invitations
     ELSE IF InvitationById(id, t) = {}
     THEN /\ resp' = InvResp("revokeInvitation", c, t, id, "NOT_FOUND", {}, {}, {})
          /\ UNCHANGED invitations
     ELSE \E existing \in InvitationById(id, t) :
       IF existing.status = "ACCEPTED"
       THEN /\ resp' = InvResp("revokeInvitation", c, t, id, "INVALID_STATE", {existing}, {}, {})
            /\ UNCHANGED invitations
       ELSE LET saved == RevokeSaved(existing, c)
            IN /\ invitations' = (invitations \ {existing}) \cup {saved}
               /\ resp' = InvResp("revokeInvitation", c, t, id, "OK", {existing}, {saved},
                             {[id |-> saved.id,
                               status |-> normalizeInvitationStatus(saved.status, saved.expiresAt)]})
  /\ gate' = NoGate /\ seqTok' = NoAccept
  /\ UNCHANGED <<now, memberships, settings, nextToken, profiles, pr>>
  /\ UNCHANGED <<featVars, files, moreVars>>

\* GET /settings, one action per await: the request arrives behind
\* requireTenantRole(['OWNER', 'ADMIN']); TenantSettingsModel.findOne({ tenantId })
gsFind(p, c, t) ==
  /\ pr[p].pc = "idle"
  /\ IF ~RoutePasses(OwnerAdmin, c, t)
     THEN /\ resp' = [op |-> "getTenantSettings", tenant |-> t, code |-> "FORBIDDEN",
                      created |-> FALSE]
          /\ UNCHANGED pr
     ELSE IF SettingsOf(t) # {}
     THEN /\ resp' = [op |-> "getTenantSettings", tenant |-> t, code |-> "OK",
                      created |-> FALSE]
          /\ UNCHANGED pr
     ELSE /\ pr' = [pr EXCEPT ![p] =
                [pc |-> "gsCreate", op |-> "getTenantSettings", user |-> c, tenant |-> t]]
          /\ resp' = NoResp
  /\ gate' = NoGate /\ seqTok' = NoAccept
  /\ UNCHANGED <<now, memberships, settings, invitations, nextToken, profiles>>
  /\ UNCHANGED <<featVars, files, moreVars>>

\* TenantSettingsModel.create({ tenantId }): a new document, with the schema's
\* defaults and an _id of its own, and the response
gsCreate(p) ==
  /\ pr[p].pc = "gsCreate"
  /\ \E publicSignup \in BOOLEAN, approvalRequired \in BOOLEAN :
       settings' = settings \cup
         {[tenantId |-> pr[p].tenant, publicSignup |-> publicSignup,
           approvalRequired |-> approvalRequired, id |-> p]}
  /\ resp' = [op |-> "getTenantSettings", tenant |-> pr[p].tenant, code |-> "OK",
              created |-> TRUE]
  /\ pr' = [pr EXCEPT ![p] = Idle]
  /\ UNCHANGED <<now, memberships, invitations, nextToken, profiles, gate, seqTok>>
  /\ UNCHANGED <<featVars, files, moreVars>>

\* inviteMember of the tenants controller: 7 * 24 * 60 * 60 * 1000
InviteMemberTtlDays == 7

\* TenantModel.findById, InvitationModel.create, writeAuditLog, ok(res, ..., 201)
inviteMember(c, t, rawEmail, role, auditFails) ==
  /\ nextToken <= MaxTokens
  /\ LET email == toLowerCaseTrim(rawEmail)
         row == NewInvitation(t, email, role, nextToken, now + InviteMemberTtlDays * TtlUnit)
         before == {i \in invitations : i.tenantId = t /\ i.email = email}
     IN IF TenantById(t) = {}
        THEN /\ resp' = InvResp("inviteMember", c, t, [email |-> rawEmail], "NOT_FOUND",
                                before, {}, {})
             /\ UNCHANGED <<invitations, nextToken>>
        ELSE /\ invitations' = invitations \cup {row}
             /\ nextToken' = nextToken + 1
             /\ resp' = InvResp("inviteMember", c, t, [email |-> rawEmail],
                                AfterAudit(auditFails, "OK"), before, {row}, {})
  /\ gate' = NoGate /\ seqTok' = NoAccept
  /\ UNCHANGED <<now, memberships, settings, profiles, pr>>
  /\ UNCHANGED <<featVars, files, moreVars>>

\* existing.save() writes the paths the handler changed on the document it
\* read, onto whatever the store holds for that _id by then
SaveModified(stored, read, saved) ==
  [f \in DOMAIN stored |-> IF saved[f] # read[f] THEN saved[f] ELSE stored[f]]

\* resendInvitation and revokeInvitation, one action per await: the request
\* arrives, InvitationModel.findOne({ _id, tenantId }) and the checks
invFind(p, op, c, t, id) ==
  /\ pr[p].pc = "idle"
  /\ op = "resendInvitation" => nextToken <= MaxTokens
  /\ IF ~RoutePasses(OwnerAdmin, c, t)
     THEN /\ resp' = InvResp(op, c, t, id, "FORBIDDEN", InvitationById(id, t), {}, {})
          /\ UNCHANGED <<pr, nextToken>>
     ELSE IF InvitationById(id, t) = {}
     THEN /\ resp' = InvResp(op, c, t, id, "NOT_FOUND", {}, {}, {})
          /\ UNCHANGED <<pr, nextToken>>
     ELSE \E existing \in InvitationById(id, t) :
       IF existing.status = "ACCEPTED"
       THEN /\ resp' = InvResp(op, c, t, id, "INVALID_STATE", {existing}, {}, {})
            /\ UNCHANGED <<pr, nextToken>>
       ELSE /\ pr' = [pr EXCEPT ![p] =
                  [pc |-> "invSave", op |-> op, user |-> c, tenant |-> t, id |-> id,
                   existing |-> existing,
                   saved |-> IF op = "resendInvitation" THEN ResendSaved(existing)
                             ELSE RevokeSaved(existing, c)]]
            /\ nextToken' = IF op = "resendInvitation" THEN nextToken + 1 ELSE nextToken
            /\ resp' = NoResp
  /\ gate' = NoGate /\ seqTok' = NoAccept
  /\ UNCHANGED <<now, memberships, settings, invitations, profiles>>
  /\ UNCHANGED <<featVars, files, moreVars>>

\* await existing.save() and the response
invSave(p) ==
  /\ pr[p].pc = "invSave"
  /\ invitations' = {IF i.id = pr[p].id
                     THEN SaveModified(i, pr[p].existing, pr[p].saved) ELSE i :
                       i \in invitations}
  /\ resp' = InvResp(pr[p].op, pr[p].user, pr[p].tenant, pr[p].id, "OK",
                     {pr[p].existing}, {pr[p].saved},
                     {[id |-> pr[p].id,
                       status |-> normalizeInvitationStatus(pr[p].saved.status,
                                                            pr[p].saved.expiresAt)]})
  /\ pr' = [pr EXCEPT ![p] = Idle]
  /\ UNCHANGED <<now, memberships, settings, nextToken, profiles, gate, seqTok>>
  /\ UNCHANGED <<featVars, files, moreVars>>

\* GET /invitations
listInvitations(c, t) ==
  /\ IF ~RoutePasses(OwnerAdmin, c, t)
     THEN resp' = [op |-> "listInvitations", code |-> "FORBIDDEN"]
     ELSE resp' = [op |-> "listInvitations", code |-> "OK",
                   reported |-> {[id |-> row.id,
                      status |-> normalizeInvitationStatus(row.status, row.expiresAt)] :
                        row \in {i \in invitations : i.tenantId = t}}]
  /\ gate' = NoGate /\ seqTok' = NoAccept
  /\ UNCHANGED <<now, memberships, settings, invitations, nextToken, profiles, pr>>
  /\ UNCHANGED <<featVars, files, moreVars>>

\* allowJoin = !!inviteToken || (settings?.publicSignup ?? true), for the
\* settings document found (none: set is empty)
allowJoin(set, inviteToken) ==
  (inviteToken # 0) \/ (IF set = {} THEN TRUE ELSE \A x \in set : x.publicSignup)

\* GET of the public join page of a tenant
getTenantJoinInfo(slug, inviteToken) ==
  /\ IF TenantBySlug(slug) = {}
     THEN resp' = [op |-> "getTenantJoinInfo", code |-> "NOT_FOUND"]
     ELSE \E tenant \in TenantBySlug(slug) :
       LET found == IF inviteToken # 0 THEN InvitationByToken(tenant, inviteToken) ELSE {}
           set == SettingsOf(tenant)
       IN resp' = [op |-> "getTenantJoinInfo", code |-> "OK",
                   allowJoin |-> allowJoin(set, inviteToken),
                   reported |-> {[id |-> i.id,
                      status |-> normalizeInvitationStatusTenants(i.status, i.expiresAt)] :
                        i \in found}]
  /\ gate' = NoGate /\ seqTok' = NoAccept
  /\ UNCHANGED <<now, memberships, settings, invitations, nextToken, profiles, pr>>
  /\ UNCHANGED <<featVars, files, moreVars>>

(***************************************************************************)
(* joinTenantBySlug: one action per await of the handler                   *)
(***************************************************************************)
\* the mutant admits every direct join at once
DirectJoinStatus_alwaysActive(set) == "ACTIVE"

\* settings?.approvalRequired ? 'PENDING' : 'ACTIVE', for the settings document
\* found (none: set is empty)
DirectJoinStatus(set) ==
  IF set # {} /\ \A x \in set : x.approvalRequired THEN "PENDING" ELSE "ACTIVE"

JoinResp(p, code, why) ==
  [op |-> "joinTenantBySlug", user |-> pr[p].user, slug |-> pr[p].slug,
   token |-> pr[p].token, code |-> code, why |-> why,
   after |-> pr[p].after, sameUser |-> pr[p].sameUser,
   again |-> (pr[p].token # 0 /\ seqTok.token = pr[p].token /\ seqTok.slug = pr[p].slug),
   wrote |-> (<<memberships, invitations>> # pr[p].pre), seen |-> pr[p].invite,
   held |-> {i \in pr[p].pre[2] : i.tenantId = pr[p].tenant /\ i.token = pr[p].token},
   prior |-> {m \in pr[p].pre[1] : m.tenantId = pr[p].tenant /\ m.userId = pr[p].user},
   banned |-> \E m \in pr[p].pre[1] : /\ m.tenantId = pr[p].tenant /\ m.userId = pr[p].user
                                      /\ m.status = "BANNED"]

\* request arrives; TenantModel.findOne({ slug })
jbsTenant(p, u, slug, inviteToken, named) ==
  /\ pr[p].pc = "idle"
  /\ IF TenantBySlug(slug) = {}
     THEN /\ resp' = [op |-> "joinTenantBySlug", user |-> u, slug |-> slug,
                      token |-> inviteToken, code |-> "NOT_FOUND", why |-> "tenant",
                      after |-> FALSE, sameUser |-> FALSE, again |-> FALSE,
                      wrote |-> FALSE, seen |-> {},
                      held |-> {}, prior |-> {}, banned |-> FALSE]
          /\ UNCHANGED pr
     ELSE /\ \E tenant \in TenantBySlug(slug) :
               pr' = [pr EXCEPT ![p] =
                 [pc |-> "reads", op |-> "joinTenantBySlug", user |-> u, slug |-> slug,
                  token |-> inviteToken, named |-> named, tenant |-> tenant,
                  after |-> (inviteToken # 0 /\ seqTok.token = inviteToken
                               /\ seqTok.slug = slug),
                  sameUser |-> (seqTok.user = u),
                  pre |-> <<memberships, invitations>>,
                  settings |-> {}, existing |-> {}, invite |-> {},
                  role |-> "MEMBER", mstatus |-> "ACTIVE"]]
          /\ resp' = NoResp
  /\ gate' = NoGate /\ seqTok' = NoAccept
  /\ UNCHANGED <<now, memberships, settings, invitations, nextToken, profiles>>
  /\ UNCHANGED <<featVars, files, moreVars>>

\* Promise.all([TenantSettingsModel.findOne, UserModel.findById,
\* MembershipModel.findOne]) and the checks up to the next await
jbsReads(p) ==
  /\ pr[p].pc = "reads"
  /\ \E existing \in (IF MembershipsOf(pr[p].tenant, pr[p].user) = {} THEN {{}}
                      ELSE {{m} : m \in MembershipsOf(pr[p].tenant, pr[p].user)}) :
       LET set == SettingsOf(pr[p].tenant)
           publicSignup == set # {} /\ \A x \in set : x.publicSignup
       IN IF \E m \in existing : m.status = "BANNED"
          THEN /\ resp' = JoinResp(p, "FORBIDDEN", "banned")
               /\ pr' = [pr EXCEPT ![p] = Idle]
          ELSE IF pr[p].token # 0
          THEN /\ pr' = [pr EXCEPT ![p].pc = "invite", ![p].settings = set,
                                   ![p].existing = existing,
                                   ![p].mstatus = DirectJoinStatus(set)]
               /\ UNCHANGED resp
          ELSE IF ~publicSignup
          THEN /\ resp' = JoinResp(p, "PUBLIC_JOIN_DISABLED", "")
               /\ pr' = [pr EXCEPT ![p] = Idle]
          ELSE IF ~pr[p].named
          THEN /\ resp' = JoinResp(p, "VALIDATION_ERROR", "")
               /\ pr' = [pr EXCEPT ![p] = Idle]
          ELSE /\ pr' = [pr EXCEPT ![p].pc = "upsert", ![p].settings = set,
                                   ![p].existing = existing,
                                   ![p].mstatus = DirectJoinStatus(set)]
               /\ UNCHANGED resp
  /\ UNCHANGED <<now, memberships, settings, invitations, nextToken, profiles, gate, seqTok>>
  /\ UNCHANGED <<featVars, files, moreVars>>

\* InvitationModel.findOne({ tenantId, token }) and the checks on the invitation
jbsInvite(p) ==
  /\ pr[p].pc = "invite"
  /\ IF InvitationByToken(pr[p].tenant, pr[p].token) = {}
     THEN /\ resp' = JoinResp(p, "NOT_FOUND", "invitation")
          /\ pr' = [pr EXCEPT ![p] = Idle]
     ELSE \E inviteRow \in InvitationByToken(pr[p].tenant, pr[p].token) :
       IF normalizeInvitationStatusTenants(inviteRow.status, inviteRow.expiresAt) # "SENT"
       THEN /\ resp' = [JoinResp(p, "INVITATION_INVALID", "") EXCEPT !.seen = {inviteRow}]
            /\ pr' = [pr EXCEPT ![p] = Idle]
       ELSE IF inviteRow.email # toLowerCase(UserDoc[pr[p].user].email)
       THEN /\ resp' = [JoinResp(p, "FORBIDDEN", "email") EXCEPT !.seen = {inviteRow}]
            /\ pr' = [pr EXCEPT ![p] = Idle]
       ELSE /\ pr' = [pr EXCEPT ![p].pc = "upsert", ![p].invite = {inviteRow},
                                ![p].role = inviteRow.role, ![p].mstatus = "ACTIVE"]
            /\ UNCHANGED resp
  /\ UNCHANGED <<now, memberships, settings, invitations, nextToken, profiles, gate, seqTok>>
  /\ UNCHANGED <<featVars, files, moreVars>>

\* the membership document joinTenantBySlug writes
JoinDoc(p) ==
  Membership(pr[p].tenant, pr[p].user, pr[p].role,
             IF \E m \in pr[p].existing : m.status = "ACTIVE" THEN "ACTIVE" ELSE pr[p].mstatus)

\* MembershipModel.findOneAndUpdate({ tenantId, userId }, ..., { upsert: true })
jbsUpsert(p) ==
  /\ pr[p].pc = "upsert"
  /\ UpsertMembership(JoinDoc(p))
  /\ pr' = [pr EXCEPT ![p].pc = "profile"]
  /\ UNCHANGED <<now, settings, invitations, nextToken, profiles, resp, gate, seqTok>>
  /\ UNCHANGED <<featVars, files, moreVars>>

\* MemberProfileModel.findOneAndUpdate(..., { upsert: true }) and user.save()
jbsProfile(p) ==
  /\ pr[p].pc = "profile"
  /\ profiles' = profiles \cup {[tenantId |-> pr[p].tenant, userId |-> pr[p].user]}
  /\ pr' = [pr EXCEPT ![p].pc = IF pr[p].invite # {} THEN "inviteSave" ELSE "audit"]
  /\ UNCHANGED <<now, memberships, settings, invitations, nextToken, resp, gate, seqTok>>
  /\ UNCHANGED <<featVars, files, moreVars>>

\* inviteRow.save(): sets the three modified paths of the stored document
jbsInviteSave(p) ==
  /\ pr[p].pc = "inviteSave"
  /\ \E inviteRow \in pr[p].invite :
       invitations' = {IF i.id = inviteRow.id
                       THEN [i EXCEPT !.status = "ACCEPTED",
                                      !.acceptedByUserId = pr[p].user, !.acceptedAt = now]
                       ELSE i : i \in invitations}
  /\ pr' = [pr EXCEPT ![p].pc = "audit"]
  /\ UNCHANGED <<now, memberships, settings, nextToken, profiles, resp, gate, seqTok>>
  /\ UNCHANGED <<featVars, files, moreVars>>

\* writeAuditLog and the 201 response
jbsAudit(p) ==
  /\ pr[p].pc = "audit"
  /\ pr[p].op = "joinTenantBySlug"
  /\ \E auditFails \in BOOLEAN :
       resp' = JoinResp(p, AfterAudit(auditFails, "OK"), "") @@ [auditFailed |-> auditFails]
  /\ seqTok' = IF pr[p].invite # {}
                THEN [slug |-> pr[p].slug, token |-> pr[p].token, user |-> pr[p].user]
                ELSE NoAccept
  /\ pr' = [pr EXCEPT ![p] = Idle]
  /\ UNCHANGED <<now, memberships, settings, invitations, nextToken, profiles, gate>>
  /\ UNCHANGED <<featVars, files, moreVars>>

(***************************************************************************)
(* joinTenant: one action per await of the handler                         *)
(***************************************************************************)
JtResp(p, code) ==
  [op |-> "joinTenant", user |-> pr[p].user, tenant |-> pr[p].tenant, code |-> code,
   prior |-> {m \in pr[p].pre : m.tenantId = pr[p].tenant /\ m.userId = pr[p].user}]

\* request arrives; TenantModel.findById(req.params.tenantId)
jtTenant(p, u, tenantId) ==
  /\ pr[p].pc = "idle"
  /\ IF TenantById(tenantId) = {}
     THEN /\ resp' = [op |-> "joinTenant", user |-> u, tenant |-> tenantId,
                      code |-> "NOT_FOUND", prior |-> {}]
          /\ UNCHANGED pr
     ELSE /\ pr' = [pr EXCEPT ![p] =
                 [pc |-> "jtSettings", op |-> "joinTenant", user |-> u, tenant |-> tenantId,
                  mstatus |-> "ACTIVE", pre |-> memberships]]
          /\ resp' = NoResp
  /\ gate' = NoGate /\ seqTok' = NoAccept
  /\ UNCHANGED <<now, memberships, settings, invitations, nextToken, profiles>>
  /\ UNCHANGED <<featVars, files, moreVars>>

\* TenantSettingsModel.findOne({ tenantId })
jtSettings(p) ==
  /\ pr[p].pc = "jtSettings"
  /\ pr' = [pr EXCEPT ![p].pc = "jtExisting",
                      ![p].mstatus = DirectJoinStatus(SettingsOf(pr[p].tenant))]
  /\ UNCHANGED <<now, memberships, settings, invitations, nextToken, profiles, resp, gate, seqTok>>
  /\ UNCHANGED <<featVars, files, moreVars>>

\* MembershipModel.findOne({ tenantId, userId }); an existing one is returned as it is
jtExisting(p) ==
  /\ pr[p].pc = "jtExisting"
  /\ IF MembershipsOf(pr[p].tenant, pr[p].user) # {}
     THEN /\ resp' = JtResp(p, "OK_EXISTING")
          /\ pr' = [pr EXCEPT ![p] = Idle]
     ELSE /\ pr' = [pr EXCEPT ![p].pc = "jtCreate"]
          /\ UNCHANGED resp
  /\ UNCHANGED <<now, memberships, settings, invitations, nextToken, profiles, gate, seqTok>>
  /\ UNCHANGED <<featVars, files, moreVars>>

\* MembershipModel.create({ tenantId, userId, role: 'MEMBER', status }); a
\* duplicate-key error of the store reaches the error handler as a 500
jtCreate(p) ==
  /\ pr[p].pc = "jtCreate"
  /\ LET doc == Membership(pr[p].tenant, pr[p].user, "MEMBER", pr[p].mstatus)
     IN IF UniquePair(doc)
        THEN /\ memberships' = memberships \cup {doc}
             /\ pr' = [pr EXCEPT ![p].pc = "jtAudit"]
             /\ UNCHANGED resp
        ELSE /\ resp' = JtResp(p, "INTERNAL_SERVER_ERROR")
             /\ pr' = [pr EXCEPT ![p] = Idle]
             /\ UNCHANGED memberships
  /\ UNCHANGED <<now, settings, invitations, nextToken, profiles, gate, seqTok>>
  /\ UNCHANGED <<featVars, files, moreVars>>

\* writeAuditLog and the 201 response
jtAudit(p) ==
  /\ pr[p].pc = "jtAudit"
  /\ resp' = JtResp(p, "OK")
  /\ pr' = [pr EXCEPT ![p] = Idle]
  /\ UNCHANGED <<now, memberships, settings, invitations, nextToken, profiles, gate, seqTok>>
  /\ UNCHANGED <<featVars, files, moreVars>>

(***************************************************************************)
(* createTenant of the admin controller: one action per await              *)
(***************************************************************************)
\* the _id values TenantModel.create hands out
NewTenantIds == {"tN1", "tN2"}
FreshTenantIds ==
  {n \in NewTenantIds : /\ \A t \in tenants : t.id # n
                        /\ \A m \in memberships : m.tenantId # n
                        /\ \A q \in Procs : pr[q].pc = "idle" \/ pr[q].tenant # n}

\* slugs as a client may type them; String(slug).toLowerCase() of createTenant
\* and normalizeSlug of promoteUserToTenant
RawSlugs == {"a", "acme", " Acme", ""}
slugToLowerCase(raw) == IF raw = " Acme" THEN " acme" ELSE raw
normalizeSlug(raw) == IF raw = " Acme" THEN "acme" ELSE raw

\* the store keeps slugs unique: a create with the slug of a stored tenant is refused
UniqueSlug(slug) == \A t \in tenants : t.slug # slug

CtResp(p, code) ==
  [op |-> "createTenant", user |-> pr[p].user, tenant |-> pr[p].tenant, code |-> code,
   prior |-> {}, slug |-> pr[p].slug, priorTenants |-> pr[p].priorTenants]

\* request arrives; TenantModel.create(...), which the store refuses if the slug is taken
ctTenant(p, c, rawSlug) ==
  /\ pr[p].pc = "idle"
  /\ LET slug == slugToLowerCase(rawSlug) IN
     IF ~UniqueSlug(slug)
     THEN /\ resp' = [op |-> "createTenant", user |-> c, tenant |-> "",
                      code |-> "INTERNAL_SERVER_ERROR", prior |-> {},
                      slug |-> slug, priorTenants |-> tenants]
          /\ UNCHANGED <<pr, tenants>>
     ELSE /\ \E created \in FreshTenantIds :
               /\ tenants' = tenants \cup {[id |-> created, slug |-> slug]}
               /\ pr' = [pr EXCEPT ![p] =
                    [pc |-> "ctMembership", op |-> "createTenant", user |-> c,
                     tenant |-> created, slug |-> slug, priorTenants |-> tenants]]
          /\ resp' = NoResp
  /\ gate' = NoGate /\ seqTok' = NoAccept
  /\ UNCHANGED <<now, memberships, settings, invitations, nextToken, profiles>>
  /\ UNCHANGED <<featVars, files, userStatus, userRoles, contentVars>>

\* MembershipModel.create({ tenantId: created._id, userId, role: 'OWNER', status: 'ACTIVE' })
ctMembership(p) ==
  /\ pr[p].pc = "ctMembership"
  /\ LET doc == Membership(pr[p].tenant, pr[p].user, "OWNER", "ACTIVE")
     IN IF UniquePair(doc)
        THEN /\ memberships' = memberships \cup {doc}
             /\ pr' = [pr EXCEPT ![p].pc = "ctAudit"]
             /\ UNCHANGED resp
        ELSE /\ resp' = CtResp(p, "INTERNAL_SERVER_ERROR")
             /\ pr' = [pr EXCEPT ![p] = Idle]
             /\ UNCHANGED memberships
  /\ UNCHANGED <<now, settings, invitations, nextToken, profiles, gate, seqTok>>
  /\ UNCHANGED <<featVars, files, moreVars>>

\* writeAuditLog and the 201 response
ctAudit(p) ==
  /\ pr[p].pc = "ctAudit"
  /\ resp' = CtResp(p, "OK")
  /\ pr' = [pr EXCEPT ![p] = Idle]
  /\ UNCHANGED <<now, memberships, settings, invitations, nextToken, profiles, gate, seqTok>>
  /\ UNCHANGED <<featVars, files, moreVars>>

(***************************************************************************)
(* promoteUserToTenant, new-tenant form: one action per await              *)
(***************************************************************************)
PnResp(p, code) ==
  [op |-> "promoteUserToTenant", user |-> pr[p].user, tenant |-> pr[p].tenant,
   code |-> code, prior |-> {}, slug |-> pr[p].slug, priorTenants |-> pr[p].priorTenants]

\* request arrives without existingTenantId; TenantModel.findOne({ slug: tenantSlug })
pnSlug(p, c, userId, tenantName, rawSlug, membershipRole) ==
  /\ pr[p].pc = "idle"
  /\ LET tenantSlug == normalizeSlug(rawSlug)
         early(code) == [op |-> "promoteUserToTenant", user |-> userId, tenant |-> "",
                         code |-> code, prior |-> {}, slug |-> tenantSlug,
                         priorTenants |-> tenants]
     IN IF ReqUser(c).globalRole # "SUPER_ADMIN"
        THEN resp' = early("FORBIDDEN") /\ UNCHANGED pr
        ELSE IF userId \notin DOMAIN userStatus
        THEN resp' = early("NOT_FOUND") /\ UNCHANGED pr
        ELSE IF tenantName = "" \/ tenantSlug = ""
        THEN resp' = early("VALIDATION_ERROR") /\ UNCHANGED pr
        ELSE IF TenantBySlug(tenantSlug) # {}
        THEN resp' = early("SLUG_EXISTS") /\ UNCHANGED pr
        ELSE /\ pr' = [pr EXCEPT ![p] =
                  [pc |-> "pnCreate", op |-> "promoteUserToTenant", user |-> userId,
                   tenant |-> "", slug |-> tenantSlug, priorTenants |-> tenants,
                   role |-> IF membershipRole = "ADMIN" THEN "ADMIN" ELSE "OWNER"]]
             /\ resp' = NoResp
  /\ gate' = NoGate /\ seqTok' = NoAccept
  /\ UNCHANGED <<now, memberships, settings, invitations, nextToken, profiles>>
  /\ UNCHANGED <<featVars, files, moreVars>>

\* TenantModel.create({ name, slug, ... }), which the store refuses if the slug is taken
pnCreate(p) ==
  /\ pr[p].pc = "pnCreate"
  /\ IF ~UniqueSlug(pr[p].slug)
     THEN /\ resp' = PnResp(p, "INTERNAL_SERVER_ERROR")
          /\ pr' = [pr EXCEPT ![p] = Idle]
          /\ UNCHANGED tenants
     ELSE /\ \E created \in FreshTenantIds :
               /\ tenants' = tenants \cup {[id |-> created, slug |-> pr[p].slug]}
               /\ pr' = [pr EXCEPT ![p].pc = "pnMembership", ![p].tenant = created]
          /\ UNCHANGED resp
  /\ UNCHANGED <<now, memberships, settings, invitations, nextToken, profiles, gate, seqTok>>
  /\ UNCHANGED <<featVars, files, userStatus, userRoles, contentVars>>

\* MembershipModel.findOneAndUpdate({ tenantId, userId }, ..., { upsert: true })
pnMembership(p) ==
  /\ pr[p].pc = "pnMembership"
  /\ UpsertMembership(Membership(pr[p].tenant, pr[p].user, pr[p].role, "ACTIVE"))
  /\ pr' = [pr EXCEPT ![p].pc = "pnAudit"]
  /\ UNCHANGED <<now, settings, invitations, nextToken, profiles, resp, gate, seqTok>>
  /\ UNCHANGED <<featVars, files, moreVars>>

\* writeAuditLog and the response
pnAudit(p) ==
  /\ pr[p].pc = "pnAudit"
  /\ \E auditFails \in BOOLEAN :
       resp' = PnResp(p, AfterAudit(auditFails, "OK")) @@ [auditFailed |-> auditFails]
  /\ pr' = [pr EXCEPT ![p] = Idle]
  /\ UNCHANGED <<now, memberships, settings, invitations, nextToken, profiles, gate, seqTok>>
  /\ UNCHANGED <<featVars, files, moreVars>>

\* createTenant or promoteUserToTenant ends between TenantModel.create and the
\* write of the Membership: the await of the write rejects or the process
\* goes down, and nothing undoes the Tenant
stopBeforeMembership(p) ==
  /\ pr[p].pc \in {"ctMembership", "pnMembership"}
  /\ resp' = (IF pr[p].op = "createTenant" THEN CtResp(p, "STOPPED")
              ELSE PnResp(p, "STOPPED"))
  /\ pr' = [pr EXCEPT ![p] = Idle]
  /\ UNCHANGED <<now, memberships, settings, invitations, nextToken, profiles, gate, seqTok>>
  /\ UNCHANGED <<featVars, files, moreVars>>

(***************************************************************************)
(* deleteTenant of the admin controller: one action per await              *)
(***************************************************************************)
DtResp(p, code) ==
  [op |-> "deleteTenant", user |-> pr[p].user, tenant |-> pr[p].tenant, code |-> code,
   prior |-> {}]

\* request arrives; TenantModel.findByIdAndDelete(req.params.id)
dtTenant(p, c, id) ==
  /\ pr[p].pc = "idle"
  /\ IF ReqUser(c).globalRole # "SUPER_ADMIN"
     THEN /\ resp' = [op |-> "deleteTenant", user |-> c, tenant |-> id,
                      code |-> "FORBIDDEN", prior |-> {}]
          /\ UNCHANGED <<pr, tenants>>
     ELSE IF TenantById(id) = {}
     THEN /\ resp' = [op |-> "deleteTenant", user |-> c, tenant |-> id,
                      code |-> "NOT_FOUND", prior |-> {}]
          /\ UNCHANGED <<pr, tenants>>
     ELSE /\ tenants' = {t \in tenants : t.id # id}
          /\ pr' = [pr EXCEPT ![p] =
               [pc |-> "dtMemberships", op |-> "deleteTenant", user |-> c, tenant |-> id]]
          /\ resp' = NoResp
  /\ gate' = NoGate /\ seqTok' = NoAccept
  /\ UNCHANGED <<now, memberships, settings, invitations, nextToken, profiles>>
  /\ UNCHANGED <<featVars, files, userStatus, userRoles, contentVars>>

\* MembershipModel.deleteMany({ tenantId: req.params.id })
dtMemberships(p) ==
  /\ pr[p].pc = "dtMemberships"
  /\ memberships' = {m \in memberships : m.tenantId # pr[p].tenant}
  /\ pr' = [pr EXCEPT ![p].pc = "dtAudit"]
  /\ UNCHANGED <<now, settings, invitations, nextToken, profiles, resp, gate, seqTok>>
  /\ UNCHANGED <<featVars, files, moreVars>>

\* writeAuditLog and the 204 response
dtAudit(p) ==
  /\ pr[p].pc = "dtAudit"
  /\ \E auditFails \in BOOLEAN :
       resp' = DtResp(p, AfterAudit(auditFails, "NO_CONTENT")) @@ [auditFailed |-> auditFails]
  /\ pr' = [pr EXCEPT ![p] = Idle]
  /\ UNCHANGED <<now, memberships, settings, invitations, nextToken, profiles, gate, seqTok>>
  /\ UNCHANGED <<featVars, files, moreVars>>

(***************************************************************************)
(* Tenant file upload and download                                         *)
(***************************************************************************)
\* the _id values the GridFS bucket hands out, an id of no stored file and
\* a string that is no ObjectId
NewFileIds == {"f1", "f2"}
AbsentFileId == "f0"
RawFileIds == NewFileIds \cup {AbsentFileId, "bad"}
isValidFileId(s) == s \in NewFileIds \cup {AbsentFileId}
FreshFileIds == {id \in NewFileIds : \A f \in files : f.id # id}

\* IMAGE_TYPES and RESOURCE_TYPES (ATTACHMENT_TYPES is RESOURCE_TYPES), and a
\* type that is none of them
ImageTypes == {"image/png"}
ResourceTypes == ImageTypes \cup {"application/pdf"}
MimeTypes == ResourceTypes \cup {"text/html"}
\* the size limits, in bytes, and file.size around them
MaxResourceSize == 20 * 1024 * 1024
MaxThumbnailSize == 2 * 1024 * 1024
MaxAttachmentSize == 10 * 1024 * 1024
MaxPostMediaSize == 5 * 1024 * 1024
FileSizes == {1024, MaxThumbnailSize + 1, MaxPostMediaSize + 1, MaxAttachmentSize + 1,
              MaxResourceSize + 1}

\* the file field of a multipart request, and a request without one
UploadedFile(mimetype, size) == [present |-> TRUE, mimetype |-> mimetype, size |-> size]
NoFile == [present |-> FALSE, mimetype |-> "", size |-> 0]

\* multer's fileFilter and fileSize limit, ahead of the handler
multerUpload(file, types, fileSize) ==
  IF ~file.present THEN "NEXT"
  ELSE IF file.mimetype \notin types THEN "ERROR"
  ELSE IF file.size > fileSize THEN "ERROR"
  ELSE "NEXT"
thumbnailUpload(file) == multerUpload(file, ImageTypes, MaxThumbnailSize)
attachmentUpload(file) == multerUpload(file, ResourceTypes, MaxAttachmentSize)
\* resourceUpload.fields: the thumbnail field takes images, the file field resources
resourceUpload(file, thumbnailFile) ==
  IF multerUpload(file, ResourceTypes, MaxResourceSize) = "ERROR" THEN "ERROR"
  ELSE multerUpload(thumbnailFile, ImageTypes, MaxResourceSize)

\* an upload request: the bearer token, the path tenant, and a tenant named
\* in the body and in the query
UploadRequest(token, t, body, query) ==
  [token |-> token, paramsTenantId |-> t, bodyTenantId |-> body, queryTenantId |-> query]

\* the mutant gates on ACTIVE membership of any role
uploadGate_anyRole(ureq) ==
  IF auth(ureq.token) # "NEXT" THEN {auth(ureq.token)}
  ELSE requireTenantRole(TenantRoles,
         FeatRequest(ureq.token.sub, ureq.paramsTenantId, ureq.bodyTenantId,
                     ureq.queryTenantId))

\* router.use(auth); router.use(requireTenantRole(['OWNER', 'ADMIN', 'MODERATOR']))
uploadGate(ureq) ==
  IF auth(ureq.token) # "NEXT" THEN {auth(ureq.token)}
  ELSE requireTenantRole(OwnerAdminModerator,
         FeatRequest(ureq.token.sub, ureq.paramsTenantId, ureq.bodyTenantId,
                     ureq.queryTenantId))

\* the route of uploadPostMedia: the gate of the upload-eligible roles
postMediaGate(ureq) == uploadGate(ureq)

\* the mutant takes the tenant from the body when the body names one
UploadTag_bodyFirst(ureq) ==
  Coalesce(ureq.bodyTenantId, ureq.paramsTenantId, ureq.queryTenantId, Undefined)

\* const tenantId = req.params.tenantId
UploadTag(ureq) == ureq.paramsTenantId

\* streamToGridFS: the document the bucket stores for a file
StoredFile(id, file, ureq, purpose) ==
  [id |-> id, contentType |-> file.mimetype, length |-> file.size,
   metadata |-> [tenantId |-> UploadTag(ureq), purpose |-> purpose,
                 uploadedBy |-> ureq.token.sub]]

\* the handlers' own checks of the file
CheckFile(file, maxSize, types) ==
  IF ~file.present THEN "VALIDATION_ERROR"
  ELSE IF file.size > maxSize THEN "VALIDATION_ERROR"
  ELSE IF file.mimetype \notin types THEN "VALIDATION_ERROR"
  ELSE "NEXT"

UploadOps == {"uploadResource", "uploadEventThumbnail", "uploadAnnouncementAttachment",
              "uploadPostMedia"}
UploadResp(op, ureq, code, fileId) ==
  [op |-> op, caller |-> ureq.token.sub, tenant |-> ureq.paramsTenantId, req |-> ureq,
   code |-> code, fileId |-> fileId, before |-> files]

\* what an upload request leaves alone
UploadFrame ==
  /\ gate' = NoGate /\ seqTok' = NoAccept
  /\ UNCHANGED <<now, memberships, settings, invitations, nextToken, profiles, pr>>
  /\ UNCHANGED <<featVars, moreVars>>

\* a handler that stores one file: gate, multer, the checks, streamToGridFS
SingleUpload(op, purpose, gated, filtered, maxSize, types, ureq, file) ==
  /\ \E g \in gated :
       IF g # "NEXT"
       THEN resp' = UploadResp(op, ureq, g, "") /\ UNCHANGED files
       ELSE IF filtered = "ERROR"
       THEN resp' = UploadResp(op, ureq, "INTERNAL_SERVER_ERROR", "") /\ UNCHANGED files
       ELSE IF CheckFile(file, maxSize, types) # "NEXT"
       THEN resp' = UploadResp(op, ureq, "VALIDATION_ERROR", "") /\ UNCHANGED files
       ELSE \E id \in FreshFileIds :
            /\ files' = files \cup {StoredFile(id, file, ureq, purpose)}
            /\ resp' = UploadResp(op, ureq, "OK", id)
  /\ UploadFrame

\* POST /event-thumbnail
uploadEventThumbnail(ureq, file) ==
  SingleUpload("uploadEventThumbnail", "event-thumbnail", uploadGate(ureq),
               thumbnailUpload(file), MaxThumbnailSize, ImageTypes, ureq, file)

\* POST /announcement-attachment
uploadAnnouncementAttachment(ureq, file) ==
  SingleUpload("uploadAnnouncementAttachment", "announcement-attachment", uploadGate(ureq),
               attachmentUpload(file), MaxAttachmentSize, ResourceTypes, ureq, file)

\* uploadPostMedia
uploadPostMedia(ureq, file) ==
  SingleUpload("uploadPostMedia", "post-media", postMediaGate(ureq),
               "NEXT", MaxPostMediaSize, ImageTypes, ureq, file)

\* POST /resource: the file, then the optional thumbnail
uploadResource(ureq, file, thumbnailFile) ==
  /\ \E g \in uploadGate(ureq) :
       IF g # "NEXT"
       THEN resp' = UploadResp("uploadResource", ureq, g, "") /\ UNCHANGED files
       ELSE IF resourceUpload(file, thumbnailFile) = "ERROR"
       THEN /\ resp' = UploadResp("uploadResource", ureq, "INTERNAL_SERVER_ERROR", "")
            /\ UNCHANGED files
       ELSE IF CheckFile(file, MaxResourceSize, ResourceTypes) # "NEXT"
       THEN /\ resp' = UploadResp("uploadResource", ureq, "VALIDATION_ERROR", "")
            /\ UNCHANGED files
       ELSE \E id \in FreshFileIds :
            LET stored == StoredFile(id, file, ureq, "resource") IN
            IF ~thumbnailFile.present
            THEN /\ files' = files \cup {stored}
                 /\ resp' = UploadResp("uploadResource", ureq, "OK", id)
            ELSE IF thumbnailFile.size > MaxThumbnailSize
                    \/ thumbnailFile.mimetype \notin ImageTypes
            THEN /\ files' = files \cup {stored}
                 /\ resp' = UploadResp("uploadResource", ureq, "VALIDATION_ERROR", "")
            ELSE \E thumbId \in FreshFileIds \ {id} :
                 /\ files' = files \cup
                      {stored, StoredFile(thumbId, thumbnailFile, ureq, "resource-thumbnail")}
                 /\ resp' = UploadResp("uploadResource", ureq, "OK", id)
  /\ UploadFrame

\* what a response carries: status and error code, the Content-Type header,
\* and the stored file whose bytes are piped into it
NoHeader == "none"
NoBytes == [id |-> "", length |-> 0]
ErrorResponse(status, code, message) ==
  [status |-> status, code |-> code, message |-> message,
   contentType |-> NoHeader, bytes |-> NoBytes]
StreamResponse(fileDoc) ==
  [status |-> 200, code |-> "OK", message |-> "", contentType |-> fileDoc.contentType,
   bytes |-> [id |-> fileDoc.id, length |-> fileDoc.length]]

\* filesCol.findOne({ _id })
FileById(fileId) == {f \in files : f.id = fileId}

\* the mutant streams whatever file the id names, as getLogo does
getTenantFileResponse_noTag(c, tenantId, fileId) ==
  IF "NEXT" \notin ensureMembershipUpload(tenantId, c)
  THEN IF isValidObjectId(tenantId) THEN ErrorResponse(403, "FORBIDDEN", "Not a tenant member")
       ELSE ErrorResponse(500, "INTERNAL_SERVER_ERROR", "Internal server error")
  ELSE IF ~isValidFileId(fileId) THEN ErrorResponse(400, "VALIDATION_ERROR", "Invalid file id")
  ELSE IF FileById(fileId) = {} THEN ErrorResponse(404, "NOT_FOUND", "File not found")
  ELSE StreamResponse(CHOOSE f \in FileById(fileId) : TRUE)

\* the mutant tells the caller that the file belongs to another tenant
getTenantFileResponse_forbidden(c, tenantId, fileId) ==
  IF "NEXT" \notin ensureMembershipUpload(tenantId, c)
  THEN IF isValidObjectId(tenantId) THEN ErrorResponse(403, "FORBIDDEN", "Not a tenant member")
       ELSE ErrorResponse(500, "INTERNAL_SERVER_ERROR", "Internal server error")
  ELSE IF ~isValidFileId(fileId) THEN ErrorResponse(400, "VALIDATION_ERROR", "Invalid file id")
  ELSE IF FileById(fileId) = {} THEN ErrorResponse(404, "NOT_FOUND", "File not found")
  ELSE LET fileDoc == CHOOSE f \in FileById(fileId) : TRUE
       IN IF fileDoc.metadata.tenantId # tenantId THEN ErrorResponse(403, "FORBIDDEN", "Forbidden")
          ELSE StreamResponse(fileDoc)

\* getTenantFile: the response to caller c for path tenant and file id
getTenantFileResponse(c, tenantId, fileId) ==
  IF "NEXT" \notin ensureMembershipUpload(tenantId, c)
  THEN IF isValidObjectId(tenantId) THEN ErrorResponse(403, "FORBIDDEN", "Not a tenant member")
       ELSE ErrorResponse(500, "INTERNAL_SERVER_ERROR", "Internal server error")
  ELSE IF ~isValidFileId(fileId) THEN ErrorResponse(400, "VALIDATION_ERROR", "Invalid file id")
  ELSE IF FileById(fileId) = {} THEN ErrorResponse(404, "NOT_FOUND", "File not found")
  ELSE LET fileDoc == CHOOSE f \in FileById(fileId) : TRUE
       IN IF fileDoc.metadata.tenantId # tenantId THEN ErrorResponse(404, "NOT_FOUND", "File not found")
          ELSE StreamResponse(fileDoc)

\* GET of a tenant file
getTenantFile(c, tenantId, fileId) ==
  /\ resp' = [op |-> "getTenantFile", caller |-> c, tenant |-> tenantId,
               fileId |-> fileId, response |-> getTenantFileResponse(c, tenantId, fileId)]
  /\ gate' = NoGate /\ seqTok' = NoAccept
  /\ UNCHANGED <<now, memberships, settings, invitations, nextToken, profiles, pr, files>>
  /\ UNCHANGED <<featVars, moreVars>>

(***************************************************************************)
(* The gate applied to a request, and the clock                            *)
(***************************************************************************)
\* a request passes through requireTenantRole(roles)
GateCheck(roles, req) ==
  /\ \E result \in requireTenantRole(roles, req) :
       gate' = [kind |-> "requireTenantRole", roles |-> roles, req |-> req,
                tenant |-> ResolveTenantId(req), result |-> result]
  /\ resp' = NoResp /\ seqTok' = NoAccept
  /\ UNCHANGED <<now, memberships, settings, invitations, nextToken, profiles, pr>>
  /\ UNCHANGED <<featVars, files, moreVars>>

\* a tenant-features handler calls ensureMembership(req.params.tenantId, req.user.sub)
EnsureCheck(req) ==
  /\ \E result \in ensureMembership(req.paramsTenantId, req.user) :
       gate' = [kind |-> "ensureMembership", roles |-> {}, req |-> req,
                tenant |-> req.paramsTenantId, result |-> result]
  /\ resp' = NoResp /\ seqTok' = NoAccept
  /\ UNCHANGED <<now, memberships, settings, invitations, nextToken, profiles, pr>>
  /\ UNCHANGED <<featVars, files, moreVars>>

\* getTenantFile calls the ensureMembership of the upload controller
EnsureCheckUpload(req) ==
  /\ \E result \in ensureMembershipUpload(req.paramsTenantId, req.user) :
       gate' = [kind |-> "ensureMembershipUpload", roles |-> {}, req |-> req,
                tenant |-> req.paramsTenantId, result |-> result]
  /\ resp' = NoResp /\ seqTok' = NoAccept
  /\ UNCHANGED <<now, memberships, settings, invitations, nextToken, profiles, pr>>
  /\ UNCHANGED <<featVars, files, moreVars>>

\* a day passes
Tick ==
  /\ now < MaxTime * TtlUnit
  /\ now' = now + TtlUnit
  /\ resp' = NoResp /\ gate' = NoGate
  /\ UNCHANGED <<memberships, settings, invitations, nextToken, profiles, pr, seqTok>>
  /\ UNCHANGED <<featVars, files, moreVars>>

\* no response is waiting to be delivered
Quiet == resp = NoResp /\ gate = NoGate
\* a new request arrives only when the server is idle: requests in sequence
Arrive == AllIdle /\ Quiet

\* the response (or the gate's decision) leaves the server
Deliver ==
  /\ ~Quiet
  /\ resp' = NoResp /\ gate' = NoGate
  /\ UNCHANGED <<now, memberships, settings, invitations, nextToken, profiles, pr, seqTok>>
  /\ UNCHANGED <<featVars, files, moreVars>>

(***************************************************************************)
(* Tenant-features handlers for groups, events and programs.  Each one is  *)
(* given as the set of its possible outcomes for a request: the response   *)
(* code, the new content of the collection it writes, and the stored       *)
(* documents its filter matched.                                           *)
(***************************************************************************)
\* number of groups GroupModel.create hands an _id to
MaxGroups == 1
GroupIds == 1..MaxGroups
EventIds == {"e1"}
ProgramIds == {"pg1"}

\* Model.findOneAndUpdate(filter, doc, { upsert: true }) on collection coll,
\* found being the documents the filter matches
\* the stored documents with the content of doc
Copies(coll, doc) == {d \in coll : \A f \in DOMAIN doc : d[f] = doc[f]}

\* the _id of a document inserted into coll: the store tells documents of
\* equal content apart, and the model numbers them
NewId(coll, doc) ==
  CHOOSE n \in 1..(Cardinality(Copies(coll, doc)) + 1) :
    /\ \A d \in Copies(coll, doc) : d.id # n
    /\ \A m \in 1..(n - 1) : \E d \in Copies(coll, doc) : d.id = m

\* an upsert that inserts whether or not the filter matches
UpsertInto_insert(coll, found, doc) == {coll \cup {doc @@ [id |-> NewId(coll, doc)]}}

\* Model.findOneAndUpdate(filter, doc, { upsert: true }) on collection coll,
\* found being the documents the filter matches: one matched document is
\* updated and keeps its _id, and a document is inserted when none matches
UpsertInto(coll, found, doc) ==
  IF found = {} THEN {coll \cup {doc @@ [id |-> NewId(coll, doc)]}}
  ELSE {(coll \ {d}) \cup {doc @@ [id |-> d.id]} : d \in found}

\* Model.deleteOne(filter)
DeleteOneFrom(coll, found) ==
  IF found = {} THEN {coll} ELSE {coll \ {d} : d \in found}

Outcome(code, coll, touched) == [code |-> code, coll |-> coll, touched |-> touched]

\* GroupModel.findOne({ _id: groupId, tenantId })
GroupInTenant(groupId, t) == {g \in groups : g.id = groupId /\ g.tenantId = t}

\* POST /groups behind requireTenantRole(['OWNER', 'ADMIN', 'MODERATOR'])
createGroupOutcomes(req) ==
  {IF r = "NEXT"
   THEN Outcome("OK", groups \cup {[id |-> Cardinality(groups) + 1,
                                     tenantId |-> req.paramsTenantId]}, {})
   ELSE Outcome(r, groups, {}) : r \in requireTenantRole(OwnerAdminModerator, req)}

\* POST /groups/:groupId/join, no gate on the route
joinGroupOutcomes(req, groupId) ==
  IF GroupInTenant(groupId, req.paramsTenantId) = {}
  THEN {Outcome("NOT_FOUND", groupMembers, {})}
  ELSE LET found == {m \in groupMembers : m.groupId = groupId /\ m.userId = req.user}
           doc == [tenantId |-> req.paramsTenantId, groupId |-> groupId, userId |-> req.user]
       IN {Outcome("OK", c, found \cup GroupInTenant(groupId, req.paramsTenantId)) :
             c \in UpsertInto(groupMembers, found, doc)}

\* DELETE /groups/:groupId/leave, no gate on the route
leaveGroupOutcomes(req, groupId) ==
  IF GroupInTenant(groupId, req.paramsTenantId) = {}
  THEN {Outcome("NOT_FOUND", groupMembers, {})}
  ELSE LET found == {m \in groupMembers : /\ m.groupId = groupId /\ m.userId = req.user
                                          /\ m.tenantId = req.paramsTenantId}
       IN {Outcome("OK", c, found \cup GroupInTenant(groupId, req.paramsTenantId)) :
             c \in DeleteOneFrom(groupMembers, found)}

\* POST /events/:eventId/rsvp, no gate on the route
rsvpEventOutcomes(req, eventId) ==
  LET found == {r \in rsvps : /\ r.tenantId = req.paramsTenantId /\ r.eventId = eventId
                              /\ r.userId = req.user}
      doc == [tenantId |-> req.paramsTenantId, eventId |-> eventId, userId |-> req.user,
              status |-> "GOING"]
  IN {Outcome("OK", c, found) : c \in UpsertInto(rsvps, found, doc)}

\* POST /programs/:programId/enroll, no gate on the route
enrollProgramOutcomes(req, programId) ==
  LET found == {e \in enrollments : /\ e.tenantId = req.paramsTenantId
                                    /\ e.programId = programId /\ e.userId = req.user}
      doc == [tenantId |-> req.paramsTenantId, programId |-> programId, userId |-> req.user]
  IN {Outcome("OK", c, found) : c \in UpsertInto(enrollments, found, doc)}

\* the response of a tenant-features request
FeatResp(op, req, o, coll) ==
  [op |-> op, kind |-> "feature", req |-> req, tenant |-> req.paramsTenantId,
   code |-> o.code, wrote |-> (o.coll # coll), touched |-> o.touched,
   created |-> o.coll \ coll]

\* what every tenant-features request leaves alone
FeatFrame ==
  /\ gate' = NoGate /\ seqTok' = NoAccept
  /\ UNCHANGED <<now, memberships, settings, invitations, nextToken, profiles, pr, files>>
  /\ UNCHANGED moreVars

createGroup(req) ==
  /\ Cardinality(groups) < MaxGroups
  /\ \E o \in createGroupOutcomes(req) :
       groups' = o.coll /\ resp' = FeatResp("createGroup", req, o, groups)
  /\ FeatFrame /\ UNCHANGED <<groupMembers, rsvps, enrollments>>

joinGroup(req, groupId) ==
  /\ \E o \in joinGroupOutcomes(req, groupId) :
       groupMembers' = o.coll /\ resp' = FeatResp("joinGroup", req, o, groupMembers)
  /\ FeatFrame /\ UNCHANGED <<groups, rsvps, enrollments>>

leaveGroup(req, groupId) ==
  /\ \E o \in leaveGroupOutcomes(req, groupId) :
       groupMembers' = o.coll /\ resp' = FeatResp("leaveGroup", req, o, groupMembers)
  /\ FeatFrame /\ UNCHANGED <<groups, rsvps, enrollments>>

rsvpEvent(req, eventId) ==
  /\ \E o \in rsvpEventOutcomes(req, eventId) :
       rsvps' = o.coll /\ resp' = FeatResp("rsvpEvent", req, o, rsvps)
  /\ FeatFrame /\ UNCHANGED <<groups, groupMembers, enrollments>>

enrollProgram(req, programId) ==
  /\ \E o \in enrollProgramOutcomes(req, programId) :
       enrollments' = o.coll /\ resp' = FeatResp("enrollProgram", req, o, enrollments)
  /\ FeatFrame /\ UNCHANGED <<groups, groupMembers, rsvps>>

\* names as a client may send them in body.fullName, and
\* String(req.body.fullName || '').trim()
RawNames == {"Ann", " Ann ", Undefined}
trimName(x) == IF x = Undefined THEN "" ELSE IF x = " Ann " THEN "Ann" ELSE x

\* PUT /member-profile, no gate on the route: ensureMembership
umpMembership(p, req, rawName) ==
  /\ pr[p] = Idle
  /\ IF ActiveMembershipsOf(req.paramsTenantId, req.user) = {}
     THEN /\ resp' = FeatResp("updateMyMemberProfile", req,
                              Outcome("FORBIDDEN", profiles, {}), profiles)
          /\ UNCHANGED pr
     ELSE /\ pr' = [pr EXCEPT ![p] = [pc |-> "umpUpsert", req |-> req,
                                      fullName |-> trimName(rawName)]]
          /\ UNCHANGED resp
  /\ UNCHANGED <<now, memberships, settings, invitations, nextToken, profiles, gate, seqTok>>
  /\ UNCHANGED <<featVars, files, moreVars>>

\* PUT /member-profile: MemberProfileModel.findOneAndUpdate({ tenantId, userId },
\* { tenantId, userId, fullName, ... }, { upsert: true, new: true })
umpUpsert(p) ==
  /\ pr[p].pc = "umpUpsert"
  /\ LET req == pr[p].req
         found == {d \in profiles : d.tenantId = req.paramsTenantId /\ d.userId = req.user}
         doc == [tenantId |-> req.paramsTenantId, userId |-> req.user,
                 fullName |-> pr[p].fullName]
     IN \E c \in UpsertInto(profiles, found, doc) :
          /\ profiles' = c
          /\ resp' = FeatResp("updateMyMemberProfile", req, Outcome("OK", c, found), profiles)
  /\ pr' = [pr EXCEPT ![p] = Idle]
  /\ UNCHANGED <<now, memberships, settings, invitations, nextToken, gate, seqTok>>
  /\ UNCHANGED <<featVars, files, moreVars>>

(***************************************************************************)
(* The same handlers as src/controllers/tenantFeatures.controller.ts has   *)
(* them                                                                    *)
(***************************************************************************)
\* POST /groups/:groupId/join: the group is not looked up, the filter is
\* { groupId, userId }
joinGroupV1Outcomes(req, groupId) ==
  LET found == {m \in groupMembers : m.groupId = groupId /\ m.userId = req.user}
      doc == [tenantId |-> req.paramsTenantId, groupId |-> groupId, userId |-> req.user]
  IN {Outcome("OK", c, found) : c \in UpsertInto(groupMembers, found, doc)}

\* DELETE /groups/:groupId/leave: deleteOne({ groupId, userId })
leaveGroupV1Outcomes(req, groupId) ==
  LET found == {m \in groupMembers : m.groupId = groupId /\ m.userId = req.user}
  IN {Outcome("OK", c, found) : c \in DeleteOneFrom(groupMembers, found)}

\* POST /events/:eventId/rsvp: the filter is { eventId, userId }
rsvpEventV1Outcomes(req, eventId) ==
  LET found == {r \in rsvps : r.eventId = eventId /\ r.userId = req.user}
      doc == [tenantId |-> req.paramsTenantId, eventId |-> eventId, userId |-> req.user,
              status |-> "GOING"]
  IN {Outcome("OK", c, found) : c \in UpsertInto(rsvps, found, doc)}

joinGroupV1(req, groupId) ==
  /\ \E o \in joinGroupV1Outcomes(req, groupId) :
       groupMembers' = o.coll /\ resp' = FeatResp("joinGroup", req, o, groupMembers)
  /\ FeatFrame /\ UNCHANGED <<groups, rsvps, enrollments>>

leaveGroupV1(req, groupId) ==
  /\ \E o \in leaveGroupV1Outcomes(req, groupId) :
       groupMembers' = o.coll /\ resp' = FeatResp("leaveGroup", req, o, groupMembers)
  /\ FeatFrame /\ UNCHANGED <<groups, rsvps, enrollments>>

rsvpEventV1(req, eventId) ==
  /\ \E o \in rsvpEventV1Outcomes(req, eventId) :
       rsvps' = o.coll /\ resp' = FeatResp("rsvpEvent", req, o, rsvps)
  /\ FeatFrame /\ UNCHANGED <<groups, groupMembers, enrollments>>

(***************************************************************************)
(* Initial state: the tenants exist, each created by the super-admin       *)
(* (createTenant leaves an ACTIVE OWNER membership for its creator)        *)
(***************************************************************************)
Init ==
  /\ now = 0
  /\ memberships = {Membership(t, "sa", "OWNER", "ACTIVE") : t \in Tenants}
  /\ settings = {}
  /\ invitations = {}
  /\ nextToken = 1
  /\ profiles = {}
  /\ pr = [p \in Procs |-> Idle]
  /\ resp = NoResp
  /\ gate = NoGate
  /\ seqTok = NoAccept
  /\ groups = {}
  /\ groupMembers = {}
  /\ rsvps = {}
  /\ enrollments = {}
  /\ files = {}
  /\ userStatus = [u \in Users |-> "ACTIVE"]
  /\ userRoles = [u \in Users |-> UserDoc[u].globalRole]
  /\ tenants = {[id |-> t, slug |-> SlugOf[t]] : t \in Tenants}
  /\ announcements = {}
  /\ posts = {}
  /\ resources = {}
  /\ events = {}
  /\ programs = {}
  /\ modules = {}
  /\ assignments = {}

(***************************************************************************)
(* SpecGate: the role gate over every membership history of one user       *)
(***************************************************************************)
GateCallers == {"u1", "sa"}
GateRouteRoles == {OwnerAdmin, OwnerAdminModerator}
\* the roles member updates hand out in this specification
GateUpdateRoles == {"ADMIN", "MEMBER"}
\* requests of tenant-scoped routes: the path carries the tenant, body and
\* query may carry another one
PathBoundRequests ==
  [hasUser : {TRUE}, user : GateCallers, paramsTenantId : Tenants, paramsId : {Undefined},
   bodyTenantId : Tenants \cup {Undefined}, queryTenantId : {Undefined}]

GateStep(p) ==
  \/ jbsReads(p) \/ jbsInvite(p) \/ jbsUpsert(p) \/ jbsProfile(p)
  \/ jbsInviteSave(p) \/ jbsAudit(p)
  \/ jtSettings(p) \/ jtExisting(p) \/ jtCreate(p) \/ jtAudit(p)

NextGate ==
  \/ \E c \in GateCallers, t \in Tenants :
       Arrive /\ updateTenantSettings(c, t, TRUE, TRUE)
  \/ \E c \in GateCallers, t \in Tenants, role \in GateUpdateRoles,
        status \in MembershipStatuses :
       Arrive /\ updateMemberRole(c, t, "u1", role, status)
  \/ \E c \in GateCallers, t \in Tenants, role \in {"ADMIN", "OWNER"} :
       Arrive /\ promoteUserToTenant(c, "u1", t, role)
  \/ \E c \in GateCallers, t \in Tenants :
       Arrive /\ invitations = {} /\ createInvitation(c, t, "a@x", "MODERATOR", JsMissing)
  \/ \E slug \in Slugs, token \in 0..1 :
       Arrive /\ jbsTenant("p1", "u1", slug, token, TRUE)
  \/ \E t \in Tenants : Arrive /\ jtTenant("p1", "u1", t)
  \/ \E roles \in GateRouteRoles, req \in PathBoundRequests :
       Arrive /\ GateCheck(roles, req)
  \/ \E req \in PathBoundRequests :
       Arrive /\ req.bodyTenantId = Undefined /\ EnsureCheck(req)
  \/ \E req \in PathBoundRequests :
       Arrive /\ req.bodyTenantId = Undefined /\ EnsureCheckUpload(req)
  \/ GateStep("p1")
  \/ Deliver

SpecGate == Init /\ [][NextGate]_vars

(***************************************************************************)
(* Spec: the invitation lifecycle, requests served one after the other     *)
(***************************************************************************)
\* the super-admin manages tenant tA; u1 tries the same routes
LifeCallers == {"sa", "u1"}
\* the tenant that issues invitations; the other one only sees their tokens
LifeTenants == {"tA"}
\* every invitation is addressed to u1, typed in two ways
LifeEmails == {"a@x", " A@X"}
InviteRoles == {"MODERATOR"}
\* req.body.expiresInDays
TtlInputs == {Days(1)}
InvitationIds == 1..MaxTokens
TokenInputs == 0..MaxTokens
\* u1 joins with and without a token, u2 only presents tokens
JoinInputs == {<<"u1", token>> : token \in TokenInputs} \cup
              {<<"u2", token>> : token \in TokenInputs \ {0}}

JoinStep(p) ==
  \/ jbsReads(p) \/ jbsInvite(p) \/ jbsUpsert(p) \/ jbsProfile(p)
  \/ jbsInviteSave(p) \/ jbsAudit(p)

Next ==
  \/ \E c \in LifeCallers, t \in LifeTenants, approvalRequired \in BOOLEAN :
       Arrive /\ updateTenantSettings(c, t, TRUE, approvalRequired)
  \/ \E c \in LifeCallers, t \in LifeTenants :
       Arrive /\ updateMemberRole(c, t, "u1", "MEMBER", "BANNED")
  \/ \E c \in LifeCallers, t \in LifeTenants, e \in LifeEmails, role \in InviteRoles,
        ttl \in TtlInputs :
       Arrive /\ createInvitation(c, t, e, role, ttl)
  \/ \E c \in LifeCallers, t \in LifeTenants, id \in InvitationIds :
       Arrive /\ resendInvitation(c, t, id)
  \/ \E c \in LifeCallers, t \in LifeTenants, id \in InvitationIds :
       Arrive /\ revokeInvitation(c, t, id)
  \/ \E c \in LifeCallers, t \in LifeTenants : Arrive /\ listInvitations(c, t)
  \/ \E slug \in Slugs, token \in TokenInputs : Arrive /\ getTenantJoinInfo(slug, token)
  \/ \E in \in JoinInputs, slug \in Slugs :
       Arrive /\ jbsTenant("p1", in[1], slug, in[2], TRUE)
  \/ JoinStep("p1")
  \/ Arrive /\ Tick
  \/ Deliver

Spec == Init /\ [][Next]_vars

(***************************************************************************)
(* SpecConc: two joinTenantBySlug requests of u1 in flight at once         *)
(***************************************************************************)
NextConc ==
  \/ \E ttl \in TtlInputs :
       Arrive /\ invitations = {} /\ createInvitation("sa", "tA", "a@x", "MODERATOR", ttl)
  \/ \E p \in Procs, token \in InvitationIds :
       Quiet /\ jbsTenant(p, "u1", "a", token, TRUE)
  \/ \E p \in Procs : Quiet /\ JoinStep(p)
  \/ Quiet /\ Tick
  \/ Deliver

SpecConc == Init /\ [][NextConc]_vars

(***************************************************************************)
(* SpecTtl: createInvitation over every requested TTL                      *)
(***************************************************************************)
TtlParts == (0 - MaxTtlInput * TtlUnit)..(MaxTtlInput * TtlUnit)
\* req.body.expiresInDays
TtlValues == {JsMissing, JsText} \cup {JsNumber(n) : n \in TtlParts}
               \cup {JsString(n) : n \in TtlParts}

NextTtl ==
  \/ \E v \in TtlValues :
       Arrive /\ invitations = {} /\ createInvitation("sa", "tA", "a@x", "MEMBER", v)
  \/ Arrive /\ Tick
  \/ Deliver

SpecTtl == Init /\ [][NextTtl]_vars

(***************************************************************************)
(* SpecJoin: direct joins through both handlers, one request at a time     *)
(***************************************************************************)
\* the states in which an administrator leaves the membership of u1
JoinUpdateStatuses == {"PENDING", "SUSPENDED"}

DirectJoinStep(p) ==
  \/ jbsReads(p) \/ jbsUpsert(p) \/ jbsProfile(p) \/ jbsAudit(p)
  \/ jtSettings(p) \/ jtExisting(p) \/ jtCreate(p) \/ jtAudit(p)

\* the tenant whose settings and memberships change
JoinTenants == {"tA"}

NextJoin ==
  \/ \E t \in JoinTenants, publicSignup \in BOOLEAN, approvalRequired \in BOOLEAN :
       Arrive /\ updateTenantSettings("sa", t, publicSignup, approvalRequired)
  \/ \E t \in JoinTenants : Arrive /\ promoteUserToTenant("sa", "u1", t, "OWNER")
  \/ \E t \in JoinTenants, status \in JoinUpdateStatuses :
       Arrive /\ updateMemberRole("sa", t, "u1", "MODERATOR", status)
  \/ \E u \in NormalUsers, t \in JoinTenants, named \in BOOLEAN :
       Arrive /\ jbsTenant("p1", u, SlugOf[t], 0, named)
  \/ \E u \in NormalUsers, t \in JoinTenants : Arrive /\ jtTenant("p1", u, t)
  \/ DirectJoinStep("p1")
  \/ Deliver

SpecJoin == Init /\ [][NextJoin]_vars

(***************************************************************************)
(* SpecRace: joinTenant, joinTenantBySlug, promoteUserToTenant and         *)
(* createTenant for the same user, two requests in flight at once          *)
(***************************************************************************)
RaceStep(p) ==
  \/ DirectJoinStep(p) \/ ctMembership(p) \/ ctAudit(p)

NextRace ==
  \/ \E approvalRequired \in BOOLEAN :
       Arrive /\ updateTenantSettings("sa", "tA", TRUE, approvalRequired)
  \/ \E p \in Procs : Quiet /\ jtTenant(p, "u1", "tA")
  \/ \E p \in Procs : Quiet /\ jbsTenant(p, "u1", "a", 0, TRUE)
  \/ \E role \in OwnerAdmin : Quiet /\ promoteUserToTenant("sa", "u1", "tA", role)
  \/ \E p \in Procs, rawSlug \in {"a", "acme"} : Quiet /\ ctTenant(p, "u1", rawSlug)
  \/ \E p \in Procs : Quiet /\ RaceStep(p)
  \/ Deliver

SpecRace == Init /\ [][NextRace]_vars

(***************************************************************************)
(* Tenant content: announcements, posts, resources, events, programs,      *)
(* modules and assignments of the tenant-features controller               *)
(***************************************************************************)
\* the _id values Model.create hands out, per collection
ContentIds == {"x1"}
\* groupId: req.body.groupId || null, with 0 for null
NoGroup == 0
Null == "null"
OrNull(v) == IF v = Undefined THEN Null ELSE v

postVars == <<announcements, posts>>
relVars == <<resources, events, programs, modules, assignments>>

\* Model.findOne({ _id: id, tenantId })
InTenant(coll, id, t) == {d \in coll : d.id = id /\ d.tenantId = t}

\* the response of a content request: deleted holds the documents it removed,
\* created the ones it added or rewrote
ContentResp(op, req, code, id, deleted, created) ==
  [op |-> op, kind |-> "content", req |-> req, tenant |-> req.paramsTenantId,
   code |-> code, id |-> id, deleted |-> deleted, created |-> created]

ContentFrame ==
  /\ gate' = NoGate /\ seqTok' = NoAccept
  /\ UNCHANGED <<now, memberships, settings, invitations, nextToken, profiles, pr, files>>
  /\ UNCHANGED <<featVars, userStatus, userRoles, tenants>>

\* a route behind requireTenantRole(['OWNER', 'ADMIN', 'MODERATOR']): the
\* handler runs when the gate calls next()
Gated(op, req, handler) ==
  \E r \in requireTenantRole(OwnerAdminModerator, req) :
    IF r = "NEXT" THEN handler
    ELSE resp' = ContentResp(op, req, r, Undefined, {}, {}) /\ UNCHANGED contentVars

\* Model.create({ tenantId: req.params.tenantId, ... }) and ok(res, created, 201)
CreateIn(op, req, coll, fields) ==
  \E id \in ContentIds \ {d.id : d \in coll} :
    LET created == [id |-> id, tenantId |-> req.paramsTenantId] @@ fields IN
    /\ coll' = coll \cup {created}
    /\ resp' = ContentResp(op, req, "OK", id, {}, {created})

\* Model.deleteOne({ _id: req.params.id, tenantId: req.params.tenantId }) and
\* res.status(204).send(), whatever deleteOne reports
DeleteIn(op, req, coll, id) ==
  /\ coll' = coll \ InTenant(coll, id, req.paramsTenantId)
  /\ resp' = ContentResp(op, req, "NO_CONTENT", id,
                         InTenant(coll, id, req.paramsTenantId), {})

NoFields == [x \in {} |-> Undefined]

\* AnnouncementModel.create, await writeAuditLog, ok(res, created, 201)
createAnnouncementHandler(req, auditFails) ==
  \E id \in ContentIds \ {d.id : d \in announcements} :
    LET created == [id |-> id, tenantId |-> req.paramsTenantId] IN
    /\ announcements' = announcements \cup {created}
    /\ resp' = ContentResp("createAnnouncement", req, AfterAudit(auditFails, "OK"),
                           id, {}, {created}) @@ [auditFailed |-> auditFails]

createAnnouncement(req, auditFails) ==
  /\ Gated("createAnnouncement", req, createAnnouncementHandler(req, auditFails))
  /\ ContentFrame /\ UNCHANGED <<posts, relVars>>

deleteAnnouncement(req, id) ==
  /\ Gated("deleteAnnouncement", req, DeleteIn("deleteAnnouncement", req, announcements, id))
  /\ ContentFrame /\ UNCHANGED <<posts, relVars>>

createPost(req) ==
  /\ Gated("createPost", req, CreateIn("createPost", req, posts, NoFields))
  /\ ContentFrame /\ UNCHANGED <<announcements, relVars>>

deletePost(req, id) ==
  /\ Gated("deletePost", req, DeleteIn("deletePost", req, posts, id))
  /\ ContentFrame /\ UNCHANGED <<announcements, relVars>>

createEvent(req) ==
  /\ Gated("createEvent", req, CreateIn("createEvent", req, events, NoFields))
  /\ ContentFrame /\ UNCHANGED <<postVars, resources, programs, modules, assignments>>

deleteEvent(req, id) ==
  /\ Gated("deleteEvent", req, DeleteIn("deleteEvent", req, events, id))
  /\ ContentFrame /\ UNCHANGED <<postVars, resources, programs, modules, assignments>>

createProgram(req) ==
  /\ Gated("createProgram", req, CreateIn("createProgram", req, programs, NoFields))
  /\ ContentFrame /\ UNCHANGED <<postVars, resources, events, modules, assignments>>

\* groupId, moduleId and programId are stored as the body gives them
createResource(req, groupId, moduleId, programId) ==
  /\ Gated("createResource", req,
           CreateIn("createResource", req, resources,
                    [groupId |-> groupId, moduleId |-> OrNull(moduleId),
                     programId |-> OrNull(programId)]))
  /\ ContentFrame /\ UNCHANGED <<postVars, events, programs, modules, assignments>>

\* findOneAndUpdate({ _id: resourceId, tenantId }, update): moduleId and
\* programId are set when the body has them
updateResourceHandler(req, resourceId, moduleId, programId) ==
  LET found == InTenant(resources, resourceId, req.paramsTenantId) IN
  IF found = {}
  THEN /\ resp' = ContentResp("updateResource", req, "NOT_FOUND", resourceId, {}, {})
       /\ UNCHANGED resources
  ELSE \E d \in found :
         LET updated == [d EXCEPT
                           !.moduleId = IF moduleId = Undefined THEN @ ELSE moduleId,
                           !.programId = IF programId = Undefined THEN @ ELSE programId]
         IN /\ resources' = (resources \ {d}) \cup {updated}
            /\ resp' = ContentResp("updateResource", req, "OK", resourceId, {}, {updated})

updateResource(req, resourceId, moduleId, programId) ==
  /\ Gated("updateResource", req, updateResourceHandler(req, resourceId, moduleId, programId))
  /\ ContentFrame /\ UNCHANGED <<postVars, events, programs, modules, assignments>>

deleteResource(req, id) ==
  /\ Gated("deleteResource", req, DeleteIn("deleteResource", req, resources, id))
  /\ ContentFrame /\ UNCHANGED <<postVars, events, programs, modules, assignments>>

\* the program named by the body is looked up in the path tenant first
createProgramModuleHandler(req, programId) ==
  IF programId = Undefined
  THEN /\ resp' = ContentResp("createProgramModule", req, "VALIDATION_ERROR", Undefined, {}, {})
       /\ UNCHANGED modules
  ELSE IF InTenant(programs, programId, req.paramsTenantId) = {}
  THEN /\ resp' = ContentResp("createProgramModule", req, "NOT_FOUND", Undefined, {}, {})
       /\ UNCHANGED modules
  ELSE CreateIn("createProgramModule", req, modules, [programId |-> programId])

createProgramModule(req, programId) ==
  /\ Gated("createProgramModule", req, createProgramModuleHandler(req, programId))
  /\ ContentFrame /\ UNCHANGED <<postVars, resources, events, programs, assignments>>

\* the resource of the body and the module of the path are looked up in the
\* path tenant, then resource.save()
addResourceToModuleHandler(req, programId, moduleId, resourceId) ==
  LET found == InTenant(resources, resourceId, req.paramsTenantId)
      module_ == {m \in InTenant(modules, moduleId, req.paramsTenantId) :
                    m.programId = programId}
      refuse(code) ==
        /\ resp' = ContentResp("addResourceToModule", req, code, resourceId, {}, {})
        /\ UNCHANGED resources
  IN IF resourceId = Undefined THEN refuse("VALIDATION_ERROR")
     ELSE IF found = {} \/ module_ = {} THEN refuse("NOT_FOUND")
     ELSE \E d \in found :
            LET saved == [d EXCEPT !.moduleId = moduleId, !.programId = programId] IN
            /\ resources' = (resources \ {d}) \cup {saved}
            /\ resp' = ContentResp("addResourceToModule", req, "OK", resourceId, {}, {saved})

addResourceToModule(req, programId, moduleId, resourceId) ==
  /\ Gated("addResourceToModule", req,
           addResourceToModuleHandler(req, programId, moduleId, resourceId))
  /\ ContentFrame /\ UNCHANGED <<postVars, events, programs, modules, assignments>>

\* program and group are looked up in the path tenant, then the upsert
assignProgramHandler(req, programId, groupId) ==
  LET refuse(code) ==
        /\ resp' = ContentResp("assignProgram", req, code, Undefined, {}, {})
        /\ UNCHANGED assignments
      row == [tenantId |-> req.paramsTenantId, programId |-> programId, groupId |-> groupId]
  IN IF programId = Undefined \/ groupId = NoGroup THEN refuse("VALIDATION_ERROR")
     ELSE IF InTenant(programs, programId, req.paramsTenantId) = {} THEN refuse("NOT_FOUND")
     ELSE IF GroupInTenant(groupId, req.paramsTenantId) = {} THEN refuse("NOT_FOUND")
     ELSE /\ assignments' = assignments \cup {row}
          /\ resp' = ContentResp("assignProgram", req, "OK", Undefined, {}, {row})

assignProgram(req, programId, groupId) ==
  /\ Gated("assignProgram", req, assignProgramHandler(req, programId, groupId))
  /\ ContentFrame /\ UNCHANGED <<postVars, resources, events, programs, modules>>

(***************************************************************************)
(* The tenant dashboard                                                    *)
(***************************************************************************)
NoData == [members |-> 0 - 1, pendingRegistrations |-> 0 - 1]

\* the counts tenantDashboard reads for the path tenant
DashboardData(tenantId) ==
  [members |-> Cardinality({m \in memberships : m.tenantId = tenantId /\ m.status = "ACTIVE"}),
   pendingRegistrations |->
     Cardinality({m \in memberships : m.tenantId = tenantId /\ m.status = "PENDING"})]

DashResp(router, req, code, data) ==
  [op |-> "tenantDashboard", router |-> router, req |-> req, tenant |-> req.paramsTenantId,
   code |-> code, data |-> data]

\* tenantDashboard: ensureMembership(tenantId, req.user.sub), then the counts
tenantDashboardOutcomes(req) ==
  {IF r = "NEXT" THEN [code |-> "OK", data |-> DashboardData(req.paramsTenantId)]
   ELSE [code |-> r, data |-> NoData] :
     r \in ensureMembership(req.paramsTenantId, req.user)}

DashFrame ==
  /\ gate' = NoGate /\ seqTok' = NoAccept
  /\ UNCHANGED <<now, memberships, settings, invitations, nextToken, profiles, pr, files>>
  /\ UNCHANGED <<featVars, moreVars>>

\* GET /dashboard behind requireTenantRole(['OWNER', 'ADMIN', 'MODERATOR'])
tenantDashboard(req) ==
  /\ \E r \in requireTenantRole(OwnerAdminModerator, req) :
       IF r = "NEXT"
       THEN \E o \in tenantDashboardOutcomes(req) :
              resp' = DashResp("tenantFeatures.routes", req, o.code, o.data)
       ELSE resp' = DashResp("tenantFeatures.routes", req, r, NoData)
  /\ DashFrame

\* GET /dashboard of src/routes/upload.routes.ts: the handler alone
tenantDashboardV1(req) ==
  /\ \E o \in tenantDashboardOutcomes(req) :
       resp' = DashResp("upload.routes", req, o.code, o.data)
  /\ DashFrame

(***************************************************************************)
(* SpecSlug: promoteUserToTenant with a new tenant and createTenant, two   *)
(* requests in flight at once                                              *)
(***************************************************************************)
SlugStep(p) ==
  \/ pnCreate(p) \/ pnMembership(p) \/ pnAudit(p) \/ ctMembership(p) \/ ctAudit(p)

NextSlug ==
  \/ \E p \in Procs, c \in {"sa", "u1"}, tenantName \in {"Acme", ""},
        rawSlug \in RawSlugs, membershipRole \in {Undefined, "ADMIN"} :
       Quiet /\ pnSlug(p, c, "u1", tenantName, rawSlug, membershipRole)
  \/ \E p \in Procs : Quiet /\ pnSlug(p, "sa", GoneUser, "Acme", "acme", Undefined)
  \/ \E p \in Procs, rawSlug \in RawSlugs : Quiet /\ ctTenant(p, "sa", rawSlug)
  \/ \E p \in Procs : Quiet /\ SlugStep(p)
  \/ Deliver

SpecSlug == Init /\ [][NextSlug]_vars

(***************************************************************************)
(* SpecDelete: deleteTenant in flight together with joins and promotions   *)
(* of the same tenant                                                      *)
(***************************************************************************)
DeleteStep(p) ==
  \/ DirectJoinStep(p) \/ dtMemberships(p) \/ dtAudit(p)

NextDelete ==
  \/ \E approvalRequired \in BOOLEAN :
       Arrive /\ updateTenantSettings("sa", "tA", TRUE, approvalRequired)
  \/ \E p \in Procs, c \in {"sa", "u1"} : Quiet /\ dtTenant(p, c, "tA")
  \/ \E p \in Procs : Quiet /\ jtTenant(p, "u1", "tA")
  \/ \E p \in Procs : Quiet /\ jbsTenant(p, "u1", "a", 0, TRUE)
  \/ \E role \in OwnerAdmin : Quiet /\ promoteUserToTenant("sa", "u1", "tA", role)
  \/ \E p \in Procs : Quiet /\ DeleteStep(p)
  \/ Deliver

SpecDelete == Init /\ [][NextDelete]_vars

(***************************************************************************)
(* SpecRel: the requests that store a relation between two entities        *)
(***************************************************************************)
RelRequests == {FeatRequest(c, t, Undefined, Undefined) : c \in {"sa", "u1"}, t \in Tenants}
BodyIds == ContentIds \cup {Undefined}
BodyGroupIds == GroupIds \cup {NoGroup}

NextRel ==
  \/ \E req \in RelRequests : Arrive /\ groups = {} /\ createGroup(req)
  \/ \E req \in RelRequests : Arrive /\ createProgram(req)
  \/ \E req \in RelRequests : Arrive /\ createEvent(req)
  \/ \E req \in RelRequests, groupId \in BodyGroupIds, moduleId \in BodyIds,
        programId \in BodyIds :
       Arrive /\ createResource(req, groupId, moduleId, programId)
  \/ \E req \in RelRequests, id \in ContentIds, moduleId \in BodyIds, programId \in BodyIds :
       Arrive /\ updateResource(req, id, moduleId, programId)
  \/ \E req \in RelRequests, programId \in BodyIds :
       Arrive /\ createProgramModule(req, programId)
  \/ \E req \in RelRequests, programId \in ContentIds, moduleId \in ContentIds,
        resourceId \in BodyIds :
       Arrive /\ addResourceToModule(req, programId, moduleId, resourceId)
  \/ \E req \in RelRequests, programId \in BodyIds, groupId \in BodyGroupIds :
       Arrive /\ assignProgram(req, programId, groupId)
  \/ \E id \in ContentIds :
       Arrive /\ rsvpEvent(FeatRequest("u1", "tA", Undefined, Undefined), id)
  \/ \E id \in ContentIds :
       Arrive /\ enrollProgram(FeatRequest("u1", "tA", Undefined, Undefined), id)
  \/ Deliver

SpecRel == Init /\ [][NextRel]_vars

(***************************************************************************)
(* SpecDel: announcements, posts, resources and events created and deleted *)
(***************************************************************************)
\* an id no collection holds
AbsentContentId == "x0"
DeleteIds == ContentIds \cup {AbsentContentId}

NextDel ==
  \/ \E req \in RelRequests, auditFails \in BOOLEAN :
       Arrive /\ createAnnouncement(req, auditFails)
  \/ \E req \in RelRequests : Arrive /\ createPost(req)
  \/ \E req \in RelRequests : Arrive /\ createResource(req, NoGroup, Undefined, Undefined)
  \/ \E req \in RelRequests : Arrive /\ createEvent(req)
  \/ \E req \in RelRequests, id \in DeleteIds : Arrive /\ deleteAnnouncement(req, id)
  \/ \E req \in RelRequests, id \in DeleteIds : Arrive /\ deletePost(req, id)
  \/ \E req \in RelRequests, id \in DeleteIds : Arrive /\ deleteResource(req, id)
  \/ \E req \in RelRequests, id \in DeleteIds : Arrive /\ deleteEvent(req, id)
  \/ Deliver

SpecDel == Init /\ [][NextDel]_vars

(***************************************************************************)
(* SpecAudit: the handlers that write an audit entry, one request at a     *)
(* time, the recorder failing or not                                       *)
(***************************************************************************)
AuditStep(p) ==
  \/ jbsReads(p) \/ jbsUpsert(p) \/ jbsProfile(p) \/ jbsAudit(p)
  \/ pnCreate(p) \/ pnMembership(p) \/ pnAudit(p)
  \/ dtMemberships(p) \/ dtAudit(p)

NextAudit ==
  \/ \E approvalRequired \in BOOLEAN :
       Arrive /\ updateTenantSettings("sa", "tA", TRUE, approvalRequired)
  \/ \E req \in RelRequests, auditFails \in BOOLEAN :
       Arrive /\ createAnnouncement(req, auditFails)
  \/ \E req \in RelRequests, id \in ContentIds : Arrive /\ deleteAnnouncement(req, id)
  \/ \E u \in NormalUsers : Arrive /\ jbsTenant("p1", u, "a", 0, TRUE)
  \/ \E rawSlug \in {"acme", "b"} :
       Arrive /\ pnSlug("p1", "sa", "u1", "Acme", rawSlug, Undefined)
  \/ \E t \in Tenants : Arrive /\ dtTenant("p1", "sa", t)
  \/ AuditStep("p1")
  \/ Deliver

SpecAudit == Init /\ [][NextAudit]_vars

(***************************************************************************)
(* SpecDash: the dashboard requested while memberships change              *)
(***************************************************************************)
DashCallers == {"sa", "u1", "u2"}
DashRequests == {FeatRequest(c, t, Undefined, Undefined) : c \in DashCallers, t \in Tenants}

NextDash ==
  \/ \E t \in Tenants, role \in OwnerAdmin : Arrive /\ promoteUserToTenant("sa", "u1", t, role)
  \/ \E c \in {"sa", "u1"}, t \in Tenants, userId \in {"sa", "u1"},
        role \in {"MEMBER", "MODERATOR"}, status \in {"ACTIVE", "SUSPENDED"} :
       Arrive /\ updateMemberRole(c, t, userId, role, status)
  \/ \E req \in DashRequests : Arrive /\ tenantDashboard(req)
  \/ \E req \in DashRequests : Arrive /\ tenantDashboardV1(req)
  \/ Deliver

SpecDash == Init /\ [][NextDash]_vars

(***************************************************************************)
(* SpecInvRace: an invitation accepted while it is resent or revoked       *)
(***************************************************************************)
InvRaceStep(p) ==
  \/ JoinStep(p) \/ invSave(p)

NextInvRace ==
  \/ \E ttl \in TtlInputs :
       Arrive /\ invitations = {} /\ createInvitation("sa", "tA", "a@x", "MODERATOR", ttl)
  \/ \E p \in Procs, token \in InvitationIds : Quiet /\ jbsTenant(p, "u1", "a", token, TRUE)
  \/ \E p \in Procs, c \in {"sa", "u2"}, id \in InvitationIds :
       Quiet /\ invFind(p, "resendInvitation", c, "tA", id)
  \/ \E p \in Procs, c \in {"sa", "u2"}, id \in InvitationIds :
       Quiet /\ invFind(p, "revokeInvitation", c, "tA", id)
  \/ \E p \in Procs : Quiet /\ InvRaceStep(p)
  \/ Deliver

SpecInvRace == Init /\ [][NextInvRace]_vars

(***************************************************************************)
(* SpecInvite: invitations issued by both controllers, resent and revoked  *)
(***************************************************************************)
NextInvite ==
  \/ \E c \in LifeCallers, e \in LifeEmails, ttl \in TtlInputs :
       Arrive /\ createInvitation(c, "tA", e, "MEMBER", ttl)
  \/ \E t \in {"tA", "tN1"}, e \in LifeEmails, auditFails \in BOOLEAN :
       Arrive /\ inviteMember("sa", t, e, "MEMBER", auditFails)
  \/ \E id \in InvitationIds : Arrive /\ resendInvitation("sa", "tA", id)
  \/ \E id \in InvitationIds : Arrive /\ revokeInvitation("sa", "tA", id)
  \/ Arrive /\ Tick
  \/ Deliver

SpecInvite == Init /\ [][NextInvite]_vars

(***************************************************************************)
(* SpecSettings: getTenantSettings and updateTenantSettings of one tenant  *)
(* in flight at once                                                       *)
(***************************************************************************)
NextSettings ==
  \/ \E p \in Procs, c \in {"sa", "u1"}, t \in Tenants : Quiet /\ gsFind(p, c, t)
  \/ \E p \in Procs : Quiet /\ gsCreate(p)
  \/ \E c \in {"sa", "u1"}, t \in Tenants, publicSignup \in BOOLEAN,
        approvalRequired \in BOOLEAN :
       Quiet /\ updateTenantSettings(c, t, publicSignup, approvalRequired)
  \/ Deliver

SpecSettings == Init /\ [][NextSettings]_vars

(***************************************************************************)
(* SpecIdem: members repeat their upsert requests, the profile requests    *)
(* of two connections overlapping                                          *)
(***************************************************************************)
IdemCallers == {"u1", "u2"}
\* u1 joins, answers and enrols in either tenant; u1 and u2 edit their profile in tA
IdemRequests == {FeatRequest("u1", t, Undefined, Undefined) : t \in Tenants}
ProfileRequests == {FeatRequest(c, "tA", Undefined, Undefined) : c \in IdemCallers}

NextIdem ==
  \/ \E u \in IdemCallers : Arrive /\ promoteUserToTenant("sa", u, "tA", "MEMBER")
  \/ Arrive /\ createGroup(FeatRequest("sa", "tA", Undefined, Undefined))
  \/ \E req \in IdemRequests, g \in GroupIds : Arrive /\ joinGroup(req, g)
  \/ \E req \in IdemRequests, e \in EventIds : Arrive /\ rsvpEvent(req, e)
  \/ \E req \in IdemRequests, pg \in ProgramIds : Arrive /\ enrollProgram(req, pg)
  \/ \E p \in Procs, req \in ProfileRequests, rawName \in RawNames :
       Quiet /\ umpMembership(p, req, rawName)
  \/ \E p \in Procs : Quiet /\ umpUpsert(p)
  \/ Deliver

SpecIdem == Init /\ [][NextIdem]_vars

(***************************************************************************)
(* SpecRetry: a tenant creation stops before its Membership is written and *)
(* the client sends the same request again                                 *)
(***************************************************************************)
RetrySlugs == {"acme", " Acme"}
RetryUsers == {"u1", "u2"}

\* the request that stopped, sent again
rerun(p) ==
  /\ resp # NoResp /\ resp.code = "STOPPED"
  /\ IF resp.op = "createTenant" THEN ctTenant(p, resp.user, resp.slug)
     ELSE pnSlug(p, "sa", resp.user, "Acme", resp.slug, Undefined)

NextRetry ==
  \/ \E p \in Procs, rawSlug \in RetrySlugs : Arrive /\ ctTenant(p, "sa", rawSlug)
  \/ \E p \in Procs, userId \in RetryUsers, rawSlug \in RetrySlugs :
       Arrive /\ pnSlug(p, "sa", userId, "Acme", rawSlug, Undefined)
  \/ \E p \in Procs : Quiet /\ SlugStep(p)
  \/ \E p \in Procs : Quiet /\ stopBeforeMembership(p)
  \/ \E p \in Procs : AllIdle /\ rerun(p)
  \/ Deliver

SpecRetry == Init /\ [][NextRetry]_vars

(***************************************************************************)
(* SpecRole: super-admins change global roles, users keep sending requests *)
(* with the token they hold                                                *)
(***************************************************************************)
RoleCallers == {"sa", "u1"}

NextRole ==
  \/ \E c \in RoleCallers, userId \in RoleCallers, globalRole \in GlobalRoles \cup {Undefined},
        status \in {Undefined, "ACTIVE"} :
       Arrive /\ updateUserRoleStatus(c, userId, globalRole, status)
  \/ \E t \in Tenants, role \in {"ADMIN", "MEMBER"} :
       Arrive /\ promoteUserToTenant("sa", "u1", t, role)
  \/ \E t \in Tenants, status \in {"ACTIVE", "SUSPENDED"} :
       Arrive /\ updateMemberRole("sa", t, "sa", "MEMBER", status)
  \/ \E roles \in {OwnerAdmin, OwnerAdminModerator}, c \in RoleCallers, t \in Tenants :
       Arrive /\ GateCheck(roles, PathRequest(c, t))
  \/ Deliver

SpecRole == Init /\ [][NextRole]_vars

(***************************************************************************)
(* SpecBan: u1 sends join requests for tA while an administrator bans and  *)
(* reinstates the membership of u1                                         *)
(***************************************************************************)
BanStep(p) ==
  \/ JoinStep(p) \/ jtSettings(p) \/ jtExisting(p) \/ jtCreate(p) \/ jtAudit(p)

NextBan ==
  \/ \E approvalRequired \in BOOLEAN :
       Arrive /\ updateTenantSettings("sa", "tA", TRUE, approvalRequired)
  \/ \E ttl \in TtlInputs :
       Arrive /\ invitations = {} /\ createInvitation("sa", "tA", "a@x", "MODERATOR", ttl)
  \/ Quiet /\ promoteUserToTenant("sa", "u1", "tA", "ADMIN")
  \/ \E status \in {"BANNED", "ACTIVE"} :
       Quiet /\ updateMemberRole("sa", "tA", "u1", "MEMBER", status)
  \/ \E token \in 0..1 : Quiet /\ jbsTenant("p1", "u1", "a", token, TRUE)
  \/ Quiet /\ jtTenant("p1", "u1", "tA")
  \/ Quiet /\ BanStep("p1")
  \/ Deliver

SpecBan == Init /\ [][NextBan]_vars

(***************************************************************************)
(* SpecResend: one invitation of tA is sent again and u1 presents the      *)
(* tokens it was sent with, requests coming one after the other            *)
(***************************************************************************)
NextResend ==
  \/ \E approvalRequired \in BOOLEAN :
       Arrive /\ updateTenantSettings("sa", "tA", TRUE, approvalRequired)
  \/ \E ttl \in TtlInputs, role \in {"MODERATOR", "ADMIN"} :
       Arrive /\ invitations = {} /\ createInvitation("sa", "tA", "a@x", role, ttl)
  \/ \E c \in {"sa", "u2"}, id \in InvitationIds : Arrive /\ resendInvitation(c, "tA", id)
  \/ \E id \in InvitationIds : Arrive /\ revokeInvitation("sa", "tA", id)
  \/ \E token \in InvitationIds, slug \in Slugs :
       Arrive /\ jbsTenant("p1", "u1", slug, token, TRUE)
  \/ JoinStep("p1")
  \/ Arrive /\ Tick
  \/ Deliver

SpecResend == Init /\ [][NextResend]_vars

(***************************************************************************)
(* SpecFiles: uploads and downloads of tenant files                        *)
(***************************************************************************)
FileCallers == {"u1", "sa"}
UploadInputs ==
  {NoFile} \cup {UploadedFile(mimetype, size) :
                 mimetype \in {"image/png", "text/html"},
                 size \in {1024, MaxThumbnailSize + 1}}
\* req.params.tenantId of a download
FilePathTenants == Tenants \cup {"bad"}

NextFiles ==
  \/ \E t \in Tenants : Arrive /\ promoteUserToTenant("sa", "u1", t, "ADMIN")
  \/ \E t \in Tenants : Arrive /\ updateMemberRole("sa", t, "u1", "ADMIN", "SUSPENDED")
  \/ \E c \in FileCallers, t \in Tenants, file \in UploadInputs :
       Arrive /\ uploadEventThumbnail(UploadRequest(TokenOf(c), t, Undefined, Undefined), file)
  \/ \E c \in FileCallers, t \in FilePathTenants, fileId \in RawFileIds :
       Arrive /\ getTenantFile(c, t, fileId)
  \/ Deliver

SpecFiles == Init /\ [][NextFiles]_vars

(***************************************************************************)
(* SpecUpload: the upload routes behind auth and the role gate             *)
(***************************************************************************)
UploadTokens == {NoToken, BadToken, TokenOf("u1"), TokenOf("sa"), TokenOf(GoneUser)}
\* the path carries the tenant; the body or the query may name another one
UploadRequests ==
  {UploadRequest(token, "tA", body, Undefined) :
     token \in UploadTokens, body \in {Undefined, "tB"}}
  \cup {UploadRequest(TokenOf("u1"), "tB", Undefined, Undefined),
        UploadRequest(TokenOf("sa"), "tB", Undefined, "tA")}
SmallImage == UploadedFile("image/png", 1024)
LargeImage == UploadedFile("image/png", MaxThumbnailSize + 1)
SmallPdf == UploadedFile("application/pdf", 1024)
HugePdf == UploadedFile("application/pdf", MaxResourceSize + 1)
HtmlFile == UploadedFile("text/html", 1024)
ResourceFiles == {NoFile, SmallPdf, HugePdf, HtmlFile}
ThumbnailFiles == {NoFile, SmallImage, LargeImage, HtmlFile}
AttachmentFiles == {NoFile, SmallPdf, HtmlFile,
                    UploadedFile("application/pdf", MaxAttachmentSize + 1)}
PostMediaFiles == {NoFile, SmallImage, SmallPdf,
                   UploadedFile("image/png", MaxPostMediaSize + 1)}

NextUpload ==
  \/ Arrive /\ promoteUserToTenant("sa", "u1", "tA", "ADMIN")
  \/ \E status \in {"ACTIVE", "SUSPENDED"} :
       Arrive /\ updateMemberRole("sa", "tA", "u1", "MEMBER", status)
  \/ \E c \in {"sa", "u1"}, userId \in {"u1", GoneUser},
        globalRole \in {Undefined, "ROOT"},
        status \in UserStatuses \cup {Undefined, "LOCKED"} :
       Arrive /\ updateUserRoleStatus(c, userId, globalRole, status)
  \/ \E ureq \in UploadRequests, file \in ResourceFiles, thumbnailFile \in ThumbnailFiles :
       Arrive /\ uploadResource(ureq, file, thumbnailFile)
  \/ \E ureq \in UploadRequests, file \in ThumbnailFiles :
       Arrive /\ uploadEventThumbnail(ureq, file)
  \/ \E ureq \in UploadRequests, file \in AttachmentFiles :
       Arrive /\ uploadAnnouncementAttachment(ureq, file)
  \/ \E ureq \in UploadRequests, file \in PostMediaFiles :
       Arrive /\ uploadPostMedia(ureq, file)
  \/ Deliver

SpecUpload == Init /\ [][NextUpload]_vars

(***************************************************************************)
(* SpecFeat: the tenant-features routes for groups, events and programs    *)
(***************************************************************************)
FeatCallers == {"u1", "sa"}
\* requests of the tenant-features routes: the path carries the tenant, body
\* and query may name another one
FeatRequests ==
  {FeatRequest(c, t, body, query) :
     c \in FeatCallers, t \in Tenants,
     body \in Tenants \cup {Undefined}, query \in Tenants \cup {Undefined}}
\* the requests u1 sends
MemberRequests == {req \in FeatRequests : req.user = "u1"}

NextFeat ==
  \/ \E t \in Tenants : Arrive /\ promoteUserToTenant("sa", "u1", t, "ADMIN")
  \/ \E t \in Tenants, status \in {"ACTIVE", "SUSPENDED"} :
       Arrive /\ updateMemberRole("sa", t, "u1", "MEMBER", status)
  \/ \E req \in FeatRequests : Arrive /\ createGroup(req)
  \/ \E req \in MemberRequests, g \in GroupIds : Arrive /\ joinGroup(req, g)
  \/ \E req \in MemberRequests, g \in GroupIds : Arrive /\ leaveGroup(req, g)
  \/ \E req \in MemberRequests, e \in EventIds : Arrive /\ rsvpEvent(req, e)
  \/ \E req \in MemberRequests, pg \in ProgramIds : Arrive /\ enrollProgram(req, pg)
  \/ Deliver

SpecFeat == Init /\ [][NextFeat]_vars

(***************************************************************************)
(* SpecFeatV1: the routes of src/routes/upload.routes.ts over the handlers *)
(* of src/controllers/tenantFeatures.controller.ts                         *)
(***************************************************************************)
\* requests that carry the tenant in the path only
PlainRequests == {req \in FeatRequests :
                    req.bodyTenantId = Undefined /\ req.queryTenantId = Undefined}

NextFeatV1 ==
  \/ \E req \in PlainRequests : Arrive /\ createGroup(req)
  \/ \E req \in PlainRequests, g \in GroupIds : Arrive /\ joinGroupV1(req, g)
  \/ \E req \in PlainRequests, g \in GroupIds : Arrive /\ leaveGroupV1(req, g)
  \/ \E req \in PlainRequests, e \in EventIds : Arrive /\ rsvpEventV1(req, e)
  \/ \E req \in PlainRequests, pg \in ProgramIds : Arrive /\ enrollProgram(req, pg)
  \/ Deliver

SpecFeatV1 == Init /\ [][NextFeatV1]_vars

(***************************************************************************)
(* Claims on the role gate (SpecGate)                                      *)
(***************************************************************************)
\* the tenants in which user u holds an ACTIVE membership
ActiveTenants(u) ==
  {t \in Tenants : \E m \in memberships :
      m.tenantId = t /\ m.userId = u /\ m.status = "ACTIVE"}

IsSuperAdmin(u) == UserDoc[u].globalRole = "SUPER_ADMIN"

\* C1: a non-super-admin user whose only ACTIVE membership is in tenant A is
\* rejected with Forbidden by requireTenantRole (for every role set) and by
\* ensureMembership whenever the path tenant of the request is another
\* tenant B, whatever joins, invitations, promotions and member updates came
\* before and whatever tenant the body names.
C1_CrossTenantForbidden ==
  /\ (gate # NoGate /\ ~IsSuperAdmin(gate.req.user)
        /\ \E A \in Tenants \ {gate.req.paramsTenantId} : ActiveTenants(gate.req.user) = {A})
       => gate.result = "FORBIDDEN"
  /\ Quiet => \A req \in PathBoundRequests, A \in Tenants :
       (~IsSuperAdmin(req.user) /\ A # req.paramsTenantId
          /\ ActiveTenants(req.user) = {A})
         => /\ \A roles \in SUBSET TenantRoles : requireTenantRole(roles, req) = {"FORBIDDEN"}
            /\ ensureMembership(req.paramsTenantId, req.user) = {"FORBIDDEN"}
            /\ ensureMembershipUpload(req.paramsTenantId, req.user) = {"FORBIDDEN"}

\* C1 witness: the gate has just refused u1 for tenant tB, where u1 holds a
\* membership that is not ACTIVE, while u1 is an ACTIVE ADMIN of tA only
C1_Witness ==
  /\ gate # NoGate /\ gate.kind = "requireTenantRole"
  /\ gate.req.user = "u1" /\ gate.req.paramsTenantId = "tB"
  /\ gate.result = "FORBIDDEN"
  /\ ActiveTenants("u1") = {"tA"}
  /\ Membership("tA", "u1", "ADMIN", "ACTIVE") \in memberships
  /\ MembershipsOf("tB", "u1") # {}

\* the condition under which the claim lets a caller through
GateAllows(roles, u, t) ==
  \/ IsSuperAdmin(u)
  \/ \E m \in memberships :
       m.tenantId = t /\ m.userId = u /\ m.status = "ACTIVE" /\ m.role \in roles

\* C3: requireTenantRole(allowedRoles) lets an authenticated caller through
\* iff the caller is SUPER_ADMIN or holds an ACTIVE membership of the
\* resolved tenant with a role in allowedRoles; every other caller of a
\* valid tenant gets Forbidden.
C3_GateIff ==
  /\ (gate # NoGate /\ gate.kind = "requireTenantRole")
       => /\ (gate.result = "NEXT") <=> GateAllows(gate.roles, gate.req.user, gate.tenant)
          /\ gate.result \in {"NEXT", "FORBIDDEN"}
  /\ Quiet => \A req \in PathBoundRequests, roles \in SUBSET TenantRoles :
       requireTenantRole(roles, req) =
         IF GateAllows(roles, req.user, req.paramsTenantId) THEN {"NEXT"} ELSE {"FORBIDDEN"}

\* C3 witness: the gate has refused a caller whose membership in the tenant
\* carries an allowed role but is not ACTIVE
C3_Witness ==
  /\ gate # NoGate /\ gate.kind = "requireTenantRole"
  /\ gate.result = "FORBIDDEN"
  /\ \E m \in MembershipsOf(gate.tenant, gate.req.user) :
       m.role \in gate.roles /\ m.status \in {"PENDING", "SUSPENDED", "BANNED"}

(***************************************************************************)
(* Claims on the invitation lifecycle (Spec)                               *)
(***************************************************************************)
\* the status table of the specification: REVOKED and ACCEPTED are sticky,
\* otherwise an expiry strictly before time t gives EXPIRED, anything else SENT
DerivedStatus(status, expiresAt, t) ==
  CASE status = "REVOKED" -> "REVOKED"
    [] status = "ACCEPTED" -> "ACCEPTED"
    [] status \notin {"REVOKED", "ACCEPTED"} /\ expiresAt < t -> "EXPIRED"
    [] OTHER -> "SENT"

ReportingOps ==
  {"listInvitations", "createInvitation", "resendInvitation", "revokeInvitation",
   "getTenantJoinInfo"}

IsJoinResp == resp.op = "joinTenantBySlug"
\* the tenant a join response is about
RespTenants == TenantBySlug(resp.slug)

\* C6: every status that listInvitations, createInvitation, resendInvitation,
\* revokeInvitation and getTenantJoinInfo report is the status the table derives
\* from the stored status, expiresAt and the current time, and joinTenantBySlug
\* refuses an invitation as invalid exactly when the table does not derive SENT.
C6_DerivedStatus ==
  /\ (resp.op \in ReportingOps /\ resp.code = "OK")
       => \A r \in resp.reported : \E i \in invitations :
            i.id = r.id /\ r.status = DerivedStatus(i.status, i.expiresAt, now)
  /\ (resp.op = "listInvitations" /\ resp.code = "OK")
       => \A i \in invitations : i.tenantId \in LifeTenants =>
            [id |-> i.id, status |-> DerivedStatus(i.status, i.expiresAt, now)] \in resp.reported
  /\ (IsJoinResp /\ resp.seen # {})
       => \A i \in resp.seen :
            (resp.code = "INVITATION_INVALID") <=>
               (DerivedStatus(i.status, i.expiresAt, now) # "SENT")

\* C6 witness: listInvitations reports SENT for an invitation that expires at
\* this very instant and ACCEPTED for one whose expiry has passed
C6_Witness ==
  /\ resp.op = "listInvitations" /\ resp.code = "OK"
  /\ \E i \in invitations :
       i.expiresAt = now /\ [id |-> i.id, status |-> "SENT"] \in resp.reported
  /\ \E i \in invitations :
       i.expiresAt < now /\ [id |-> i.id, status |-> "ACCEPTED"] \in resp.reported

\* C7: a successful acceptance leaves the invitation stored as ACCEPTED, and
\* the request that presents the same token of the same tenant right after it
\* fails with INVITATION_INVALID.
C7_SecondAcceptFails ==
  /\ (IsJoinResp /\ resp.code = "OK" /\ resp.token # 0)
       => \A t \in RespTenants :
            /\ InvitationByToken(t, resp.token) # {}
            /\ \A i \in InvitationByToken(t, resp.token) : i.status = "ACCEPTED"
  /\ (IsJoinResp /\ resp.after) => resp.code = "INVITATION_INVALID"

\* C7 witness: the user who has just accepted presents the token again and is
\* refused
C7_Witness ==
  /\ IsJoinResp /\ resp.after /\ resp.sameUser
  /\ resp.code = "INVITATION_INVALID"
  /\ \E i \in resp.seen : i.status = "ACCEPTED" /\ i.acceptedByUserId = resp.user

\* the invitation e-mail and the user's e-mail differ, compared without case
EmailDiffers(i, u) == toLowerCase(i.email) # toLowerCase(UserDoc[u].email)

\* a join response to a request that presented the token of an invitation of
\* the tenant
IsInvitedJoinResp == IsJoinResp /\ resp.token # 0 /\ resp.held # {}

\* what C9 demands of the response to a request that held invitation i
RefusedAsClaimed(i) ==
  /\ DerivedStatus(i.status, i.expiresAt, now) # "SENT"
       => resp.code = "INVITATION_INVALID"
  /\ (DerivedStatus(i.status, i.expiresAt, now) = "SENT" /\ EmailDiffers(i, resp.user))
       => resp.code = "FORBIDDEN"
  /\ resp.code \in {"INVITATION_INVALID", "FORBIDDEN"} => ~resp.wrote

\* C9 as stated: joinTenantBySlug with an invitation token fails with
\* INVITATION_INVALID whenever the derived status of the invitation is not
\* SENT, fails with Forbidden when it is SENT but the e-mail differs, and in
\* both failures changes no membership and no invitation.  Refuted: a user
\* whose membership in the tenant is BANNED is refused with Forbidden before
\* the invitation is looked at, whatever its status.
C9_AsStated ==
  IsInvitedJoinResp => \A i \in resp.held : RefusedAsClaimed(i)

\* C9 amended: the same, for every user who is not BANNED in the tenant; a
\* BANNED user is refused with Forbidden, and nothing is changed either.
C9_InvalidOrForbidden ==
  IsInvitedJoinResp =>
    IF resp.banned
    THEN resp.code = "FORBIDDEN" /\ ~resp.wrote
    ELSE \A i \in resp.held : RefusedAsClaimed(i)

\* C9 witness: an expired invitation has been refused as invalid for the user
\* it is addressed to, who is not banned, and nothing was written
C9_Witness ==
  /\ IsInvitedJoinResp /\ ~resp.banned
  /\ resp.code = "INVITATION_INVALID" /\ ~resp.wrote
  /\ \E i \in resp.held : i.status = "SENT" /\ i.expiresAt < now
                          /\ ~EmailDiffers(i, resp.user)

\* C10: after a successful acceptance the user holds exactly one membership
\* in the tenant of the invitation, ACTIVE and with the invitation's role,
\* whatever the approvalRequired setting, and the invitation is stored as
\* ACCEPTED with the user as acceptedByUserId and with an acceptedAt time.
C10_AcceptanceEffect ==
  (IsJoinResp /\ resp.code = "OK" /\ resp.token # 0) =>
    \A t \in RespTenants :
      /\ Cardinality(MembershipsOf(t, resp.user)) = 1
      /\ \A i \in resp.seen :
           /\ i.tenantId = t
           /\ MembershipsOf(t, resp.user) = {Membership(t, resp.user, i.role, "ACTIVE")}
           /\ \E j \in invitations :
                /\ j.id = i.id /\ j.status = "ACCEPTED"
                /\ j.acceptedByUserId = resp.user /\ j.acceptedAt = now
                /\ j.acceptedAt # NoTime
      /\ resp.seen # {}

\* C10 witness: the tenant requires approval and the user was a PENDING
\* member before accepting
C10_Witness ==
  /\ IsJoinResp /\ resp.code = "OK" /\ resp.token # 0
  /\ \A t \in RespTenants :
       /\ \E x \in SettingsOf(t) : x.approvalRequired
       /\ Membership(t, resp.user, "MODERATOR", "ACTIVE") \in memberships
  /\ \E m \in resp.prior : m.status = "PENDING"
  /\ resp.wrote

(***************************************************************************)
(* Claims on the tenant-features routes (SpecFeat)                         *)
(***************************************************************************)
IsFeatResp == resp.op \in {"createGroup", "joinGroup", "leaveGroup", "rsvpEvent",
                           "enrollProgram"}

\* the request without the tenant identifiers of its body and query
Strip(req) == [req EXCEPT !.bodyTenantId = Undefined, !.queryTenantId = Undefined]

\* body or query of the request name a tenant other than the one of the path
NamesOtherTenant(req) ==
  \/ req.bodyTenantId \notin {Undefined, req.paramsTenantId}
  \/ req.queryTenantId \notin {Undefined, req.paramsTenantId}

C4_WritesNeedMembership ==
  (IsFeatResp /\ resp.wrote) =>
    \/ IsSuperAdmin(resp.req.user)
    \/ ActiveMembershipsOf(resp.tenant, resp.req.user) # {}

\* C5: every stored record that the filter of a tenant-features handler
\* matches for a request of path tenant T, and every record the handler
\* creates, carries tenantId T, for super-admin callers as for the others.
C5_TouchesPathTenantOnly ==
  IsFeatResp => \A r \in resp.touched \cup resp.created : r.tenantId = resp.tenant

(***************************************************************************)
(* Claims on concurrent acceptance (SpecConc)                              *)
(***************************************************************************)
\* C8: of two joinTenantBySlug requests in flight with the same invitation
\* token at most one succeeds: the request that finishes after an acceptance
\* of its token has finished fails with INVITATION_INVALID.
C8_ConsumedOnce ==
  (IsJoinResp /\ resp.again) => resp.code = "INVITATION_INVALID"

(***************************************************************************)
(* Claims on joins over an existing membership (SpecGate, SpecJoin)        *)
(***************************************************************************)
\* the order of the tenant roles, lowest first
RoleRank(role) ==
  CASE role = "MEMBER" -> 1 [] role = "MODERATOR" -> 2 [] role = "ADMIN" -> 3
    [] OTHER -> 4

\* C11: accepting an invitation never downgrades a membership the user
\* already holds in the tenant: after the acceptance the membership is ACTIVE
\* and its role is not lower than the role held before.
C11_NoDowngrade ==
  (IsJoinResp /\ resp.code = "OK" /\ resp.token # 0 /\ resp.prior # {}) =>
    \A t \in RespTenants : \A m \in MembershipsOf(t, resp.user) :
      /\ m.status = "ACTIVE"
      /\ \A q \in resp.prior : RoleRank(m.role) >= RoleRank(q.role)

(***************************************************************************)
(* Claims on resend, revoke and create of invitations (Spec)               *)
(***************************************************************************)
\* the invitation handlers are mounted behind requireTenantRole(OWNER, ADMIN)
CallerManages == RoutePasses(OwnerAdmin, resp.caller, resp.tenant)

\* C12: resendInvitation by a manager of the path tenant fails with
\* INVALID_STATE and changes nothing when the stored status is ACCEPTED; for
\* any other invitation of the tenant (SENT, expired or REVOKED) it succeeds,
\* gives it a new token, stores SENT, clears revokedAt and revokedByUserId and
\* sets an expiry in the future, so that the derived status is SENT.
C12_Resend ==
  (resp.op = "resendInvitation" /\ CallerManages) =>
    \A e \in resp.before :
      IF e.status = "ACCEPTED"
      THEN resp.code = "INVALID_STATE" /\ e \in invitations /\ resp.saved = {}
      ELSE /\ resp.code = "OK"
           /\ \E s \in InvitationById(e.id, resp.tenant) :
                /\ InvitationById(e.id, resp.tenant) = {s}
                /\ s.token # e.token
                /\ \A i \in invitations : i.token = s.token => i = s
                /\ s.status = "SENT"
                /\ s.revokedAt = NoTime /\ s.revokedByUserId = Undefined
                /\ s.expiresAt > now
                /\ DerivedStatus(s.status, s.expiresAt, now) = "SENT"
                /\ [id |-> s.id, status |-> "SENT"] \in resp.reported

\* C12 witness: a REVOKED invitation has been resent
C12_Witness ==
  /\ resp.op = "resendInvitation" /\ resp.code = "OK"
  /\ \E e \in resp.before : e.status = "REVOKED" /\ e.revokedByUserId = "sa"
  /\ \E s \in invitations : s.status = "SENT" /\ s.token = nextToken - 1

\* C13: revokeInvitation by a manager of the path tenant fails with
\* INVALID_STATE and changes nothing when the stored status is ACCEPTED;
\* otherwise it stores REVOKED with the caller as revokedByUserId and the time
\* as revokedAt.  A stored REVOKED invitation derives REVOKED whatever its
\* expiry, and an acceptance that presents it fails and writes nothing.
C13_Revoke ==
  /\ (resp.op = "revokeInvitation" /\ CallerManages) =>
       \A e \in resp.before :
         IF e.status = "ACCEPTED"
         THEN resp.code = "INVALID_STATE" /\ e \in invitations /\ resp.saved = {}
         ELSE /\ resp.code = "OK"
              /\ \E s \in InvitationById(e.id, resp.tenant) :
                   /\ InvitationById(e.id, resp.tenant) = {s}
                   /\ s.status = "REVOKED"
                   /\ s.revokedByUserId = resp.caller
                   /\ s.revokedAt = now /\ s.revokedAt # NoTime
                   /\ [id |-> s.id, status |-> "REVOKED"] \in resp.reported
  /\ \A i \in invitations : i.status = "REVOKED" =>
       /\ normalizeInvitationStatus(i.status, i.expiresAt) = "REVOKED"
       /\ normalizeInvitationStatusTenants(i.status, i.expiresAt) = "REVOKED"
  /\ (IsJoinResp /\ \E i \in resp.held : i.status = "REVOKED") =>
       resp.code # "OK" /\ ~resp.wrote

\* C13 witness: the addressee presents a revoked invitation that has not
\* expired and is refused
C13_Witness ==
  /\ IsJoinResp /\ resp.code = "INVITATION_INVALID" /\ ~resp.wrote
  /\ \E i \in resp.held : /\ i.status = "REVOKED" /\ i.revokedByUserId = "sa"
                          /\ i.expiresAt >= now /\ ~EmailDiffers(i, resp.user)

\* C14: createInvitation by a manager of the path tenant fails with
\* INVITATION_EXISTS (409) and creates nothing when the tenant holds an
\* invitation for the same lower-cased, trimmed e-mail whose derived status is
\* SENT; otherwise it succeeds and creates exactly one invitation, stored SENT.
C14_CreateConflict ==
  (resp.op = "createInvitation" /\ CallerManages) =>
    LET email == toLowerCaseTrim(resp.arg.email)
        same == {i \in invitations : i.tenantId = resp.tenant /\ i.email = email}
    IN IF \E i \in resp.before : DerivedStatus(i.status, i.expiresAt, now) = "SENT"
       THEN resp.code = "INVITATION_EXISTS" /\ same = resp.before
       ELSE /\ resp.code = "OK"
            /\ resp.before \subseteq same
            /\ Cardinality(same \ resp.before) = 1
            /\ \A r \in same \ resp.before : r.status = "SENT"

\* C14 witness: the e-mail is typed differently and the invitation in the way
\* expires at this very instant
C14_Witness ==
  /\ resp.op = "createInvitation" /\ resp.code = "INVITATION_EXISTS"
  /\ resp.arg.email = " A@X"
  /\ \E i \in resp.before : i.email = "a@x" /\ i.expiresAt = now

(***************************************************************************)
(* Claim on the requested TTL (SpecTtl)                                    *)
(***************************************************************************)
\* C15: whatever TTL the request carries (absent, zero, negative, a fraction
\* of a day, above 30, a numeric string), the expiry createInvitation stores
\* lies at least 1 day and at most 30 days after the time of creation.
C15_ExpiryWithinBounds ==
  resp.op = "createInvitation" =>
    /\ resp.code = "OK" => resp.saved # {}
    /\ \A r \in resp.saved :
         /\ r \in invitations
         /\ r.expiresAt >= now + 1 * TtlUnit
         /\ r.expiresAt <= now + 30 * TtlUnit

\* C15 witness: a TTL of a fraction of a day is stored as one day
C15_Witness ==
  /\ resp.op = "createInvitation" /\ resp.code = "OK"
  /\ resp.arg.ttl = JsNumber(1)
  /\ \E r \in resp.saved : r \in invitations /\ r.expiresAt = now + TtlUnit

\* a join without invitation, through either handler, and its tenant
IsDirectJoinResp == resp.op = "joinTenant" \/ (IsJoinResp /\ resp.token = 0)
DirectJoinTenants == IF resp.op = "joinTenant" THEN {resp.tenant} ELSE RespTenants
\* the approvalRequired setting of tenant t
ApprovalRequired(t) == \E x \in SettingsOf(t) : x.approvalRequired

\* C16: a successful direct join (joinTenant, or joinTenantBySlug without
\* invite token) by a user without membership in the tenant creates exactly
\* one membership, with role MEMBER, PENDING if the tenant's approvalRequired
\* setting is true and ACTIVE otherwise.
C16_DirectJoinStatus ==
  (IsDirectJoinResp /\ resp.code = "OK" /\ resp.prior = {}) =>
    \A t \in DirectJoinTenants :
      MembershipsOf(t, resp.user) =
        {Membership(t, resp.user, "MEMBER",
                    IF ApprovalRequired(t) THEN "PENDING" ELSE "ACTIVE")}

\* C16 witness: joinTenant has created a PENDING membership
C16_Witness ==
  /\ resp.op = "joinTenant" /\ resp.code = "OK" /\ resp.prior = {}
  /\ ApprovalRequired(resp.tenant)
  /\ Membership(resp.tenant, resp.user, "MEMBER", "PENDING") \in memberships

\* C17: a direct join by a user who already has a membership in the tenant,
\* through either handler, leaves the role and the status of that membership
\* as they were.
C17_ExistingKept ==
  (IsDirectJoinResp /\ resp.prior # {}) =>
    \A t \in DirectJoinTenants : MembershipsOf(t, resp.user) = resp.prior

(***************************************************************************)
(* Claim on concurrent joins (SpecRace)                                    *)
(***************************************************************************)
AllTenantIds == Tenants \cup NewTenantIds
MembershipOps == {"joinTenant", "joinTenantBySlug", "createTenant"}

RequestedFiles == {f \in files : f.id = resp.fileId}

\* C19: getTenantFile streams a stored file only to a caller with an ACTIVE
\* membership in the path tenant and only when the tag stored with the file
\* equals the path tenant; the tag is the path tenant of the upload that
\* stored the file, and each file id has one stored document, so a request
\* against one tenant never streams a file uploaded under another.
C19_StreamOnlyOwnTenant ==
  /\ \A f, g \in files : f.id = g.id => f = g
  /\ (resp.op = "uploadEventThumbnail" /\ resp.code = "OK") =>
       \E f \in files : f.id = resp.fileId /\ f.metadata.tenantId = resp.tenant
  /\ (resp.op = "getTenantFile" /\ resp.response.bytes # NoBytes) =>
       /\ ActiveMembershipsOf(resp.tenant, resp.caller) # {}
       /\ \E f \in RequestedFiles :
            /\ f.metadata.tenantId = resp.tenant
            /\ resp.response.bytes.id = f.id

\* a member of both tenants is streamed a file of the path tenant while a
\* file of the other tenant is stored too
C19_Witness ==
  /\ resp.op = "getTenantFile"
  /\ resp.response.bytes # NoBytes
  /\ \A t \in Tenants : ActiveMembershipsOf(t, resp.caller) # {}
  /\ \E f \in files : f.metadata.tenantId # resp.tenant

\* C20: to a member of the path tenant, a download of a file whose stored tag
\* is another tenant is answered exactly as a download of a file id that names
\* no stored file: 404 NOT_FOUND with the same message, no Content-Type header
\* and no bytes.
C20_ForeignFileLooksAbsent ==
  (/\ resp.op = "getTenantFile"
   /\ ActiveMembershipsOf(resp.tenant, resp.caller) # {}
   /\ \E f \in RequestedFiles : f.metadata.tenantId # resp.tenant) =>
     /\ resp.response = getTenantFileResponse(resp.caller, resp.tenant, AbsentFileId)
     /\ resp.response.status = 404
     /\ resp.response.code = "NOT_FOUND"
     /\ resp.response.contentType = NoHeader
     /\ resp.response.bytes = NoBytes

\* u1, an ACTIVE member of the path tenant only, asks for a file of the other tenant
C20_Witness ==
  /\ resp.op = "getTenantFile"
  /\ resp.caller = "u1"
  /\ ActiveMembershipsOf(resp.tenant, "u1") # {}
  /\ \E t \in Tenants : ActiveMembershipsOf(t, "u1") = {}
  /\ \E f \in RequestedFiles : f.metadata.tenantId # resp.tenant
  /\ resp.response.code = "NOT_FOUND"


(***************************************************************************)
(* C21..C24: uploads behind auth and the role gate (SpecUpload)            *)
(***************************************************************************)
\* the files the last upload request stored
StoredByRequest == files \ resp.before

\* C21: every file a step adds to the bucket was added by an upload request
\* and carries the path tenant of that request as metadata.tenantId, whatever
\* tenant the body or the query names; and no step changes the tag of a file
\* that is already stored.
C21_TagIsUploadPath ==
  [][/\ \A f \in files : \E g \in files' :
          g.id = f.id /\ g.metadata.tenantId = f.metadata.tenantId
     /\ \A g \in files' \ files :
          /\ resp'.op \in UploadOps
          /\ g.metadata.tenantId = resp'.req.paramsTenantId]_vars

\* an upload whose body names another tenant than the path has stored a file
C21_Witness ==
  /\ resp.op \in UploadOps /\ resp.code = "OK"
  /\ resp.req.bodyTenantId \notin {Undefined, resp.req.paramsTenantId}
  /\ \E g \in StoredByRequest : g.metadata.tenantId = resp.req.paramsTenantId

\* C22: an upload request that is rejected with a validation error leaves the
\* file store as it was.
C22_RejectedStoresNothing ==
  (resp.op \in UploadOps /\ resp.code = "VALIDATION_ERROR") => files = resp.before

\* the upload handlers the router of the upload routes mounts
RoutedUploadOps == {"uploadResource", "uploadEventThumbnail", "uploadAnnouncementAttachment"}

\* C23: a request to an upload route stores a file only if auth let it pass
\* and the caller is SUPER_ADMIN or holds an ACTIVE OWNER, ADMIN or MODERATOR
\* membership in the path tenant; a request that auth or the role gate
\* rejects stores nothing.
C23_GateBeforePersist ==
  resp.op \in RoutedUploadOps =>
    /\ StoredByRequest # {} =>
         /\ auth(resp.req.token) = "NEXT"
         /\ \/ IsSuperAdmin(resp.caller)
            \/ \E m \in ActiveMembershipsOf(resp.tenant, resp.caller) :
                 m.role \in OwnerAdminModerator
    /\ resp.code \in {"UNAUTHORIZED", "INVALID_TOKEN", "ACCOUNT_SUSPENDED",
                      "ACCOUNT_BANNED", "FORBIDDEN"} => files = resp.before

\* an ACTIVE member with role MEMBER in the path tenant, whose account is
\* ACTIVE, is refused by the role gate and nothing is stored
C23_Witness ==
  /\ resp.op \in RoutedUploadOps /\ resp.code = "FORBIDDEN"
  /\ auth(resp.req.token) = "NEXT"
  /\ \E m \in ActiveMembershipsOf(resp.tenant, resp.caller) : m.role = "MEMBER"
  /\ files = resp.before

\* C24: a request carrying a valid token of a user whose stored status is
\* SUSPENDED or BANNED is answered ACCOUNT_SUSPENDED or ACCOUNT_BANNED and
\* reaches no handler; a request without a token, with a token that fails
\* verification or with a token of a user that no longer exists is answered
\* UNAUTHORIZED or INVALID_TOKEN.
C24_AccountStatusChecked ==
  resp.op \in UploadOps =>
    LET token == resp.req.token IN
    /\ (token.kind = "valid" /\ UserById(token.sub) = {"SUSPENDED"}) =>
         resp.code = "ACCOUNT_SUSPENDED" /\ files = resp.before
    /\ (token.kind = "valid" /\ UserById(token.sub) = {"BANNED"}) =>
         resp.code = "ACCOUNT_BANNED" /\ files = resp.before
    /\ (token.kind = "none" \/ (token.kind = "valid" /\ UserById(token.sub) = {})) =>
         resp.code = "UNAUTHORIZED" /\ files = resp.before
    /\ token.kind = "invalid" => resp.code = "INVALID_TOKEN" /\ files = resp.before

\* u1, an ACTIVE ADMIN of the path tenant whose account was suspended after
\* the token was issued, is turned away
C24_Witness ==
  /\ resp.op \in UploadOps /\ resp.req.token = TokenOf("u1")
  /\ userStatus["u1"] = "SUSPENDED"
  /\ \E m \in ActiveMembershipsOf(resp.tenant, "u1") : m.role = "ADMIN"
  /\ resp.code = "ACCOUNT_SUSPENDED"

\* the answered request, from a super-admin and with valid fields, asked for a
\* tenant whose slug a stored tenant had when the request arrived
SlugRequestOps == {"createTenant", "promoteUserToTenant"}
SlugWasTaken ==
  /\ resp.op \in SlugRequestOps /\ "slug" \in DOMAIN resp
  /\ resp.code \notin {"FORBIDDEN", "NOT_FOUND", "VALIDATION_ERROR"}
  /\ \E t \in resp.priorTenants : t.slug = resp.slug

\* C25: no two tenants ever share a slug, and a createTenant or
\* promoteUserToTenant request for a slug that a stored tenant already has
\* fails with Conflict (SLUG_EXISTS) and creates no tenant.
C25_TakenSlugConflict ==
  /\ \A t1 \in tenants, t2 \in tenants : t1.slug = t2.slug => t1.id = t2.id
  /\ SlugWasTaken => resp.code = "SLUG_EXISTS" /\ resp.tenant = ""

\* C26: once every request has finished, no Membership refers to a tenant
\* that no longer exists, whatever the interleaving of deleteTenant with
\* join and promote requests for the same tenant.
C26_NoOrphanMembership ==
  AllIdle => \A m \in memberships : TenantById(m.tenantId) # {}

\* the entities of coll that a reference with this id points at belong to tenant t
RefInTenant(coll, id, t) == \A d \in coll : d.id = id => d.tenantId = t

\* C27: every stored relation is intra-tenant: a resource's groupId, moduleId
\* and programId, a module's programId, an assignment's programId and groupId,
\* an RSVP's eventId and an enrollment's programId never refer to an entity
\* of another tenant than the referencing record's.
C27_RelationsIntraTenant ==
  /\ \A r \in resources :
       /\ RefInTenant(groups, r.groupId, r.tenantId)
       /\ RefInTenant(modules, r.moduleId, r.tenantId)
       /\ RefInTenant(programs, r.programId, r.tenantId)
  /\ \A m \in modules : RefInTenant(programs, m.programId, m.tenantId)
  /\ \A a \in assignments :
       /\ RefInTenant(programs, a.programId, a.tenantId)
       /\ RefInTenant(groups, a.groupId, a.tenantId)
  /\ \A v \in rsvps : RefInTenant(events, v.eventId, v.tenantId)
  /\ \A e \in enrollments : RefInTenant(programs, e.programId, e.tenantId)

DeleteOps == {"deleteAnnouncement", "deletePost", "deleteResource", "deleteEvent"}
GateRefusals == {"UNAUTHORIZED", "FORBIDDEN", "VALIDATION_ERROR"}

\* C28: a delete of an announcement, post, resource or event whose id is not
\* held by the path tenant is answered 404 and deletes nothing; 204 is
\* answered only when a record of the path tenant was deleted.
C28_DeleteMissingIs404 ==
  (resp.op \in DeleteOps /\ resp.code \notin GateRefusals) =>
    /\ \A d \in resp.deleted : d.tenantId = resp.tenant
    /\ resp.deleted = {} => resp.code = "NOT_FOUND"
    /\ resp.code = "NO_CONTENT" => resp.deleted # {}

AuditedOps == {"createAnnouncement", "joinTenantBySlug", "promoteUserToTenant", "deleteTenant"}
\* the answered request reached its audit entry and writing the entry failed
AuditFailed ==
  resp.op \in AuditedOps /\ "auditFailed" \in DOMAIN resp /\ resp.auditFailed

\* the data change of the answered request is in the store
ChangeKept ==
  CASE resp.op = "createAnnouncement" -> resp.created # {} /\ resp.created \subseteq announcements
    [] resp.op = "deleteTenant" ->
         /\ TenantById(resp.tenant) = {}
         /\ \A m \in memberships : m.tenantId # resp.tenant
    [] resp.op = "promoteUserToTenant" ->
         /\ TenantBySlug(resp.slug) = {resp.tenant}
         /\ ActiveMembershipsOf(resp.tenant, resp.user) # {}
    [] OTHER -> \E t \in TenantBySlug(resp.slug) : MembershipsOf(t, resp.user) # {}

C30_DashboardForManagersOnly ==
  (/\ resp.op = "tenantDashboard" /\ resp.code = "OK"
   /\ ReqUser(resp.req.user).globalRole # "SUPER_ADMIN") =>
    \E m \in ActiveMembershipsOf(resp.tenant, resp.req.user) : m.role \in OwnerAdminModerator

\* C31: ACCEPTED is terminal under concurrency: once joinTenantBySlug has
\* stored the acceptance of an invitation, no interleaving with a resend or
\* revoke that read the invitation earlier ends with a stored status other
\* than ACCEPTED.
C31_AcceptedIsTerminal ==
  AllIdle => \A i \in invitations : i.acceptedAt # NoTime => i.status = "ACCEPTED"

\* the invitations of (tenant, email) whose derived status is SENT now
SentInvitations(t, email) ==
  {i \in invitations : /\ i.tenantId = t /\ i.email = email
                       /\ DerivedStatus(i.status, i.expiresAt, now) = "SENT"}

\* C32: in every reachable state, for each (tenant, email) at most one
\* invitation has derived status SENT.
C32_OneOutstandingInvitation ==
  \A i \in invitations : Cardinality(SentInvitations(i.tenantId, i.email)) <= 1

\* C33: after any interleaving of getTenantSettings and updateTenantSettings
\* requests for one tenant, at most one TenantSettings record exists for it.
C33_OneSettingsPerTenant ==
  \A t \in Tenants : Cardinality(SettingsOf(t)) <= 1

(***************************************************************************)
(* Claims on repeated upserts (SpecIdem)                                   *)
(***************************************************************************)
IdemOps == {"joinGroup", "rsvpEvent", "enrollProgram", "updateMyMemberProfile"}

\* the collection an upsert handler writes
IdemColl(op) ==
  CASE op = "joinGroup" -> groupMembers
    [] op = "rsvpEvent" -> rsvps
    [] op = "enrollProgram" -> enrollments
    [] op = "updateMyMemberProfile" -> profiles

\* the fields of the filter of the handler's findOneAndUpdate
IdemKey(op) ==
  CASE op = "joinGroup" -> {"groupId", "userId"}
    [] op = "rsvpEvent" -> {"tenantId", "eventId", "userId"}
    [] op = "enrollProgram" -> {"tenantId", "programId", "userId"}
    [] op = "updateMyMemberProfile" -> {"tenantId", "userId"}

SameKey(op, x, y) == \A f \in IdemKey(op) : x[f] = y[f]

\* the record the answered request stored: the one it wrote, or the one its
\* filter matched when there was nothing to change
IdemRecord ==
  IF resp.created # {} THEN resp.created
  ELSE {d \in resp.touched : "userId" \in DOMAIN d}

\* C34: after any number of identical RSVP, join-group, enroll and
\* update-profile requests, in sequence or overlapping, each natural key has
\* exactly one record, and the record of an answered request is the one a
\* single request leaves: the caller, the path tenant and the values of the
\* request.
C34_UpsertsConverge ==
  /\ \A op \in IdemOps : \A x, y \in IdemColl(op) : SameKey(op, x, y) => x = y
  /\ (resp.op \in IdemOps /\ resp.code = "OK") =>
       /\ Cardinality(IdemRecord) = 1
       /\ \A d \in IdemRecord :
            /\ d \in IdemColl(resp.op)
            /\ d.userId = resp.req.user /\ d.tenantId = resp.tenant
            /\ resp.op = "rsvpEvent" => d.status = "GOING"
            /\ resp.op = "updateMyMemberProfile" => d.fullName \in {"", "Ann"}
            /\ {x \in IdemColl(resp.op) : SameKey(resp.op, x, d)} = {d}

\* C34 witness: a profile request is answered OK having changed nothing, the
\* record being there already, while another profile request is in flight,
\* and the groups, RSVPs and enrolments hold a record each for the caller.
C34_Witness ==
  /\ resp.op = "updateMyMemberProfile" /\ resp.code = "OK" /\ ~resp.wrote
  /\ \E q \in Procs : pr[q].pc = "umpUpsert" /\ pr[q].req = resp.req
  /\ \E d \in groupMembers : d.userId = resp.req.user
  /\ \E d \in rsvps : d.userId = resp.req.user
  /\ \E d \in enrollments : d.userId = resp.req.user

(***************************************************************************)
(* Claims on the retry of a tenant creation (SpecRetry)                    *)
(***************************************************************************)
\* C35: when createTenant or promoteUserToTenant (new-tenant form) stopped
\* after the Tenant was created and before the Membership was written, the
\* same request sent again is not refused: it goes on to the Membership, and
\* any answer it is given is OK with one tenant of the slug and an ACTIVE
\* OWNER Membership of the intended user.
C35_CreationIsRetryable ==
  [][(resp # NoResp /\ resp.code = "STOPPED" /\ resp' # resp /\ resp' # NoResp) =>
       /\ resp'.code = "OK"
       /\ Cardinality({t \in tenants' : t.slug = resp.slug}) = 1
       /\ \E t \in {x \in tenants' : x.slug = resp.slug} :
            Membership(t.id, resp.user, "OWNER", "ACTIVE") \in memberships']_vars

(***************************************************************************)
(* Claims on changes of the global role (SpecRole)                         *)
(***************************************************************************)
\* C36: once the stored globalRole of a user is USER, requireTenantRole lets
\* a request of that user through only on an ACTIVE membership of the path
\* tenant with one of the route's roles, whatever role the token carries.
C36_DemotionTakesEffect ==
  (gate # NoGate /\ gate.kind = "requireTenantRole" /\ userRoles[gate.req.user] = "USER"
     /\ gate.result = "NEXT")
    => \E m \in ActiveMembershipsOf(gate.tenant, gate.req.user) : m.role \in gate.roles

(***************************************************************************)
(* Claims on joins of a banned user (SpecBan)                              *)
(***************************************************************************)
\* a step of a join request of user u
JoinStepOf(u) ==
  \E p \in Procs : pr[p].pc # "idle" /\ pr[p].user = u /\ pr'[p] # pr[p]

\* C37: no step of a join request of a user (joinTenantBySlug with or
\* without invitation token, joinTenant) changes or removes a membership of
\* that user whose status is BANNED, whenever the ban was written.
C37_BannedStaysBanned ==
  [][\A m \in memberships :
       (m.status = "BANNED" /\ JoinStepOf(m.userId)) => m \in memberships']_vars

(***************************************************************************)
(* Claims on the token of an invitation sent again (SpecResend)            *)
(***************************************************************************)
\* the tokens are handed out in order and all to the one invitation of
\* SpecResend: the last one is its token, the earlier ones were replaced by
\* a resend
ReplacedTokens == 1..(nextToken - 2)

C39_JoinInfoAgrees ==
  (IsJoinResp /\ resp.token = 0 /\ ~resp.banned) =>
    \A t \in TenantBySlug(resp.slug) :
      allowJoin(SettingsOf(t), 0) <=> (resp.code # "PUBLIC_JOIN_DISABLED")

====
